---- MODULE Spec2Model ----
(***************************************************************************)
(* CityZenGuard retrieval engine.                                          *)
(*                                                                         *)
(*  - rag_service/query_api.py : the query resolver (query_endpoint and    *)
(*    its helpers direct_section_lookup, search_embeddings, safe_generate) *)
(*  - scripts/rag/build_embeddings_hf.py : the index builder (main,        *)
(*    chunk_text, batch_embed)                                             *)
(*  - chunk_text of build_embeddings_hf.py run step by step on its own     *)
(*  - split_text_into_chunks of build_index.py and simple_build_index.py  *)
(*  - scripts/rag/build_index.py, scripts/rag/query.py : the FAISS index   *)
(*    written by build_faiss_index and read by query.py's main             *)
(*                                                                         *)
(* Strings are sequences of symbols.  In a query or a title a symbol is a  *)
(* keyword ("section", "Section", "ipc", "IPC"), a digit, a blank, a       *)
(* letter run "x" or a punctuation mark ":".  A generated text is the      *)
(* sequence of its whitespace-separated words.  Vectors are sequences of   *)
(* integers; a cosine score is kept exactly as the pair (dot, n) that      *)
(* stands for dot / sqrt(n), n = 0 being numpy's nan.                      *)
(***************************************************************************)
EXTENDS Integers, Sequences, FiniteSets, TLC

VARIABLES
    \* ---- query_api.py ----
    df,          \* module global df: sequence of [title, content]
    embeddings,  \* module global embeddings: one vector per row of df
    qpc,         \* position of query_endpoint
    q,           \* payload.question.strip()
    direct_ctx,  \* value returned by direct_section_lookup (<<>> is None)
    results,     \* value returned by search_embeddings
    ans,         \* value of the last safe_generate call
    calls,       \* the stages run and external calls made for this query
    result,      \* what query_endpoint returned or raised
    \* ---- build_embeddings_hf.py ----
    documents,   \* what load_documents returned: sequence of [fname, content]
    docstore,    \* main's docstore, in insertion order
    texts,       \* main's texts
    model,       \* the model batch_embed is running against
    bi,          \* batch_embed's loop variable i
    attempt,     \* batch_embed's attempt
    emb_acc,     \* batch_embed's accumulating list
    emb_out,     \* main's embeddings (what batch_embed returned)
    bpc,         \* position of main
    resp,        \* the last response to requests.post
    embed_calls, \* the models batch_embed was called with, in order
    nreq,        \* requests sent by the running batch_embed call
    sent,        \* requests sent for the current batch
    slept,       \* the last time.sleep, in tenths of a second
    warned,      \* main printed the length warning
    exact,       \* every batch accepted by the running batch_embed call
                 \* carried one vector per input, in input order
    disk,        \* the two files under OUT_DIR
    disk0,       \* the two files as they were when main started
    bresult,     \* how main ended
    \* ---- build_index.py build_faiss_index, query.py main ----
    rag,         \* the files under server/rag: index.faiss, embeddings.npy,
                 \* docstore.json
    new_documents, \* the documents build_faiss_index is called with
    fpc,         \* position of build_faiss_index
    kpc,         \* position of query.py's main
    k_faiss,     \* has_transformers: sentence_transformers and faiss import
    k_index,     \* the index load_faiss_index read
    k_npy,       \* the embeddings load_basic_index read
    k_docstore,  \* the docstore the successful load read
    k_top,       \* top_k
    k_results,   \* main's results, or what the search raised
    \* ---- chunk_text, one call ----
    c_in,        \* the arguments: text, max_chars, overlap
    c_text,      \* the local text (after replace)
    c_i,         \* i
    c_parts,     \* parts
    c_pc,        \* position of chunk_text
    \* ---- split_text_into_chunks, one call ----
    s_in,        \* the arguments: text, max_length, overlap
    s_chunks,    \* the list returned
    s_pc         \* position of the call

qvars == <<df, embeddings, qpc, q, direct_ctx, results, ans, calls, result>>

bvars == <<documents, docstore, texts, model, bi, attempt, emb_acc, emb_out,
           bpc, resp, embed_calls, nreq, sent, slept, warned, exact, disk, disk0, bresult>>

rvars == <<rag, new_documents, fpc, kpc, k_faiss, k_index, k_npy, k_docstore, k_top,
           k_results>>

\* the variables of the scripts that are neither the resolver's nor the
\* embeddings builder's
cvars == <<c_in, c_text, c_i, c_parts, c_pc>>

svars == <<s_in, s_chunks, s_pc>>

xvars == <<rvars, cvars, svars>>

vars == <<qvars, bvars, xvars>>

\* ------------------------------------------------------------------------
\* Bounds
\* ------------------------------------------------------------------------
MaxFrags == 2
MaxDocs == 2
\* chunk_text and batch_embed are run with max_chars=1000, overlap=200 and
\* batch_size=8; the model scales these three down
ChunkMaxChars == 3
ChunkOverlap == 1
BatchSize == 2
\* the texts and window sizes chunk_text is called with on its own
MaxTextLen == 5
MaxWindow == 4

\* ------------------------------------------------------------------------
\* Program constants
\* ------------------------------------------------------------------------
TopK == 5
ScoreThresholdPct == 40
MinWords == 5
TempDirect == 10
TempWeb == 30
TempKB == 15
StatusUnauthorized == 401
StatusGenFailed == 503
StatusInternal == 500
Retries == 4
Backoff == 5
SleepAfterBatch == 5
StatusOK == 200

\* ------------------------------------------------------------------------
\* Input alphabets
\* ------------------------------------------------------------------------
None == <<>>

Questions ==
    { <<"Section", " ", "3", "0", "2">>,          \* "Section 302"
      <<" ", "IPC", "3", "0", " ">>,              \* " IPC30 "
      <<"x", " ", "section", " ", "x">>,          \* keyword without a number
      <<"x", " ", "x">> }                         \* no reference at all

Titles ==
    { <<"IPC", " ", "Section", " ", "3", "0", "2", ":", " ", "x">>,  \* "IPC Section 302: Murder"
      <<"section", " ", "3", "0">>,                                  \* "section 30"
      <<"x">> }                                                      \* "Theft"

EmbVecs == { <<1, 0, 0, 0>>, <<2, 4, 2, 1>>, <<0, 1, 0, 0>>, <<0, 0, 0, 0>> }

QueryVecs == { <<1, 0, 0, 0>>, <<0, 0, 0, 0>> }

SentinelWords == <<"Not", "found", "in", "knowledge", "base">>

GenTexts ==
    { <<"w", "w", "w", "w", "w">>,
      <<"w", "w", "w", "w">>,
      SentinelWords,
      <<"w">> \o SentinelWords \o <<"w">>,
      <<"ERROR:", "w", "w", "w", "w">> }

\* what client.models.generate_content does: text, or one of two exceptions
GenOutcomes ==
    [type : {"text"}, text : GenTexts]
        \cup { [type |-> "quota", text |-> <<>>], [type |-> "raise", text |-> <<>>] }

\* ------------------------------------------------------------------------
\* Helpers on strings
\* ------------------------------------------------------------------------
Lower(c) == CASE c = "Section" -> "section"
              [] c = "IPC" -> "ipc"
              [] OTHER -> c

IsKeyword(c) == c \in {"section", "ipc"}
IsDigit(c) == c \in {"0", "1", "2", "3", "4", "5", "6", "7", "8", "9"}
IsSpace(c) == c \in {" ", "\r"}
IsWordChar(c) == IsKeyword(Lower(c)) \/ IsDigit(c) \/ c \in {"x", "a", "b", "c", "d"}

LowerStr(s) == [i \in 1..Len(s) |-> Lower(s[i])]

\* str.strip()
RECURSIVE Strip(_)
Strip(s) ==
    IF s = <<>> THEN s
    ELSE IF IsSpace(Head(s)) THEN Strip(Tail(s))
    ELSE IF IsSpace(s[Len(s)]) THEN Strip(SubSeq(s, 1, Len(s) - 1))
    ELSE s

\* first position >= p of s that holds no blank (Len(s)+1 when there is none)
RECURSIVE SkipSpaces(_, _)
SkipSpaces(s, p) ==
    IF p <= Len(s) /\ IsSpace(s[p]) THEN SkipSpaces(s, p + 1) ELSE p

\* last position of the digit run of s that starts at p
RECURSIVE DigitRunEnd(_, _)
DigitRunEnd(s, p) ==
    IF p + 1 <= Len(s) /\ IsDigit(s[p + 1]) THEN DigitRunEnd(s, p + 1) ELSE p

Min(S) == CHOOSE x \in S : \A y \in S : x <= y

\* re.search(r"(?:ipc|section)\s*(\d+)", query.lower()): group 1, or None
SectionOf(query) ==
    LET s == LowerStr(query)
        starts == { p \in 1..Len(s) :
                      /\ IsKeyword(s[p])
                      /\ SkipSpaces(s, p + 1) <= Len(s)
                      /\ IsDigit(s[SkipSpaces(s, p + 1)]) }
    IN  IF starts = {} THEN None
        ELSE LET d == SkipSpaces(s, Min(starts) + 1)
             IN  SubSeq(s, d, DigitRunEnd(s, d))

\* the pattern without the section number: any title naming a section matches
TitleContains_KeywordOnly(title, sec) ==
    \E p \in 1..Len(title) :
        /\ IsKeyword(Lower(title[p]))
        /\ (p = 1 \/ ~IsWordChar(title[p - 1]))

\* the pattern without the closing (?:\b|$): the number may be a prefix
TitleContains_NoBoundary(title, sec) ==
    \E p \in 1..Len(title) :
        /\ IsKeyword(Lower(title[p]))
        /\ (p = 1 \/ ~IsWordChar(title[p - 1]))
        /\ LET d == SkipSpaces(title, p + 1)
               e == d + Len(sec) - 1
           IN  /\ e <= Len(title)
               /\ SubSeq(title, d, e) = sec

\* title contains (?:^|\b)(?:Section|IPC)\s*{sec}(?:\b|$), case=False
TitleContains(title, sec) ==
    \E p \in 1..Len(title) :
        /\ IsKeyword(Lower(title[p]))
        /\ (p = 1 \/ ~IsWordChar(title[p - 1]))
        /\ LET d == SkipSpaces(title, p + 1)
               e == d + Len(sec) - 1
           IN  /\ e <= Len(title)
               /\ SubSeq(title, d, e) = sec
               /\ (e = Len(title) \/ ~IsWordChar(title[e + 1]))

RECURSIVE SetToSeq(_)
SetToSeq(S) == IF S = {} THEN <<>> ELSE <<Min(S)>> \o SetToSeq(S \ {Min(S)})

\* the rows of frame joined into the context: their row numbers, in order
direct_section_lookup(frame, query) ==
    LET sec == SectionOf(query)
        hits == { i \in 1..Len(frame) : TitleContains(frame[i].title, sec) }
    IN  IF sec # None /\ hits # {} THEN SetToSeq(hits) ELSE None

\* ------------------------------------------------------------------------
\* Helpers on vectors and scores
\* ------------------------------------------------------------------------
RECURSIVE DotUpTo(_, _, _)
DotUpTo(a, b, k) == IF k = 0 THEN 0 ELSE a[k] * b[k] + DotUpTo(a, b, k - 1)

Dot(a, b) == DotUpTo(a, b, Len(a))

\* np.dot(e, q) / (norm(e) * norm(q)) as dot / sqrt(n); n = 0 gives nan
Cosine(e, qe) == [dot |-> Dot(e, qe), n |-> Dot(e, e) * Dot(qe, qe)]

IsNaN(s) == s.n = 0

Sign(x) == IF x < 0 THEN 0 - 1 ELSE IF x > 0 THEN 1 ELSE 0

\* a < b for two scores that are not nan
ScoreLess(a, b) == Sign(a.dot) * a.dot * a.dot * b.n < Sign(b.dot) * b.dot * b.dot * a.n

\* best_score <= 0.40
BelowThreshold_Inclusive(s) ==
    /\ ~IsNaN(s)
    /\ \/ s.dot <= 0
       \/ 100 * 100 * s.dot * s.dot <= ScoreThresholdPct * ScoreThresholdPct * s.n

\* best_score < 0.40 (false for nan)
BelowThreshold(s) ==
    /\ ~IsNaN(s)
    /\ \/ s.dot < 0
       \/ 100 * 100 * s.dot * s.dot < ScoreThresholdPct * ScoreThresholdPct * s.n

\* a is placed strictly before b by np.argsort(scores)[::-1]: nan sorts last
\* in ascending order, hence first after the reversal
RanksBefore(a, b) ==
    \/ IsNaN(a) /\ ~IsNaN(b)
    \/ ~IsNaN(a) /\ ~IsNaN(b) /\ ScoreLess(b, a)

Perms(n) == { p \in [1..n -> 1..n] : \A i, j \in 1..n : p[i] = p[j] => i = j }

\* the orders np.argsort(scores)[::-1] can produce (the default sort kind is
\* not stable, so rows with equal scores come in either order)
ArgsortDesc(scores) ==
    { p \in Perms(Len(scores)) :
        \A i, j \in 1..Len(scores) : i < j => ~RanksBefore(scores[p[j]], scores[p[i]]) }

Take(s, k) == SubSeq(s, 1, IF Len(s) < k THEN Len(s) ELSE k)

search_embeddings(frame, embs, q_emb, order, top_k) ==
    LET scores == [i \in 1..Len(embs) |-> Cosine(embs[i], q_emb)]
        top_idx == Take(order, top_k)
    IN  [k \in 1..Len(top_idx) |->
            [row |-> top_idx[k], title |-> frame[top_idx[k]].title,
             content |-> frame[top_idx[k]].content, score |-> scores[top_idx[k]]]]

\* ------------------------------------------------------------------------
\* Generation
\* ------------------------------------------------------------------------
\* safe_generate returning the bare exception text for a non-quota error
safe_generate_Unmarked(outcome) ==
    CASE outcome.type = "text" -> outcome.text
      [] outcome.type = "quota" -> <<"ERROR:", "Gemini", "quota", "exceeded">>
      [] OTHER -> <<"e">>

\* safe_generate: the text, or a string that starts with "ERROR:"
safe_generate(outcome) ==
    CASE outcome.type = "text" -> outcome.text
      [] outcome.type = "quota" -> <<"ERROR:", "Gemini", "quota", "exceeded">>
      [] OTHER -> <<"ERROR:", "e">>

\* the error marker never looked for
StartsWithError_Never(a) == FALSE

\* ans.startswith("ERROR:")
StartsWithError(a) == a # <<>> /\ a[1] = "ERROR:"

\* "Not found in knowledge base" in ans
HasSentinel(a) ==
    \E p \in 1..Len(a) :
        /\ p + Len(SentinelWords) - 1 <= Len(a)
        /\ SubSeq(a, p, p + Len(SentinelWords) - 1) = SentinelWords

\* the post-generation check without the word count
NeedsWebFallback_SentinelOnly(a) == HasSentinel(a)

\* the post-generation check without the sentinel
NeedsWebFallback_WordsOnly(a) == Len(a) < MinWords

\* "Not found in knowledge base" in ans or len(ans.split()) < 5
NeedsWebFallback(a) == HasSentinel(a) \/ Len(a) < MinWords

build_kb_prompt(context, query) == [kind |-> "kb", context |-> context, query |-> query]

build_web_prompt(query) == [kind |-> "web", context |-> None, query |-> query]

GenCall(prompt, temperature, outcome) ==
    [op |-> "generate", prompt |-> prompt, temperature |-> temperature,
     failed |-> outcome.type # "text", out |-> safe_generate(outcome)]

StageCall(name) ==
    [op |-> name, prompt |-> build_web_prompt(None), temperature |-> 0,
     failed |-> FALSE, out |-> None]

\* the three things query_endpoint can end with
NoResult == [kind |-> "none", answer |-> None, source |-> "", status |-> 0]
\* every answer tagged as coming from the knowledge base
Answer_AlwaysKB(a, src) == [kind |-> "answer", answer |-> a, source |-> "kb", status |-> StatusOK]

Answer(a, src) == [kind |-> "answer", answer |-> a, source |-> src, status |-> StatusOK]
HTTPException(code) == [kind |-> "error", answer |-> None, source |-> "", status |-> code]

\* ------------------------------------------------------------------------
\* The loaded index
\* ------------------------------------------------------------------------
Frames ==
    UNION { [1..n -> [title : Titles, content : {"c"}]] : n \in 0..MaxFrags }

\* df and embeddings are unpickled as one pair: a vector per row
QInit ==
    /\ df \in Frames
    /\ embeddings \in [1..Len(df) -> EmbVecs]
    /\ qpc = "idle"
    /\ q = None
    /\ direct_ctx = None
    /\ results = <<>>
    /\ ans = None
    /\ calls = <<>>
    /\ result = NoResult

\* the resolver is not running (the builder is checked on its own)
QOff ==
    /\ df = <<>>
    /\ embeddings = <<>>
    /\ qpc = "off"
    /\ q = None
    /\ direct_ctx = None
    /\ results = <<>>
    /\ ans = None
    /\ calls = <<>>
    /\ result = NoResult

\* ------------------------------------------------------------------------
\* query_endpoint
\* ------------------------------------------------------------------------
\* a resolver that searches even after a structural hit
AfterLookup_NoBypass(ctx) == "search"

\* if direct_ctx: ... (a non-empty context is truthy)
AfterLookup(ctx) == IF ctx # None THEN "gen_direct" ELSE "search"

\* the score gate with the comparison the wrong way round
AfterSearch_Flipped(best_score) ==
    IF BelowThreshold(best_score) THEN "gen_kb" ELSE "gen_web_low"

\* if best_score < 0.40: ...
AfterSearch(best_score) == IF BelowThreshold(best_score) THEN "gen_web_low" ELSE "gen_kb"

\* the request arrives: the key check, then q = payload.question.strip()
\* (one request is followed from its arrival to its response)
Receive ==
    /\ qpc = "idle"
    /\ \E question \in Questions, key_ok \in BOOLEAN :
         IF key_ok
         THEN /\ q' = Strip(question)
              /\ qpc' = "lookup"
              /\ result' = NoResult
         ELSE /\ q' = q
              /\ qpc' = "done"
              /\ result' = HTTPException(StatusUnauthorized)
    /\ UNCHANGED <<df, embeddings, direct_ctx, results, ans, calls>>
    /\ UNCHANGED <<bvars, xvars>>

\* 1) direct section lookup
StructuralLookup ==
    /\ qpc = "lookup"
    /\ direct_ctx' = direct_section_lookup(df, q)
    /\ calls' = Append(calls, StageCall("lookup"))
    /\ qpc' = AfterLookup(direct_ctx')
    /\ UNCHANGED <<df, embeddings, q, results, ans, result>>
    /\ UNCHANGED <<bvars, xvars>>

GenerateDirect ==
    /\ qpc = "gen_direct"
    /\ \E outcome \in GenOutcomes :
         LET call == GenCall(build_kb_prompt(direct_ctx, q), TempDirect, outcome)
         IN  /\ ans' = call.out
             /\ calls' = Append(calls, call)
             /\ result' = IF StartsWithError(call.out)
                          THEN HTTPException(StatusGenFailed)
                          ELSE Answer(call.out, "kb")
    /\ qpc' = "done"
    /\ UNCHANGED <<df, embeddings, q, direct_ctx, results>>
    /\ UNCHANGED <<bvars, xvars>>

\* 2) embedding search, then the score gate; results[0] of an empty list
\* raises IndexError, which the handler turns into a 500
\* a search whose empty result is taken for a low score
VectorSearch_EmptyIsLow ==
    /\ qpc = "search"
    /\ \E q_emb \in QueryVecs :
       \E order \in ArgsortDesc([i \in 1..Len(embeddings) |-> Cosine(embeddings[i], q_emb)]) :
         /\ results' = search_embeddings(df, embeddings, q_emb, order, TopK)
         /\ calls' = calls \o <<[StageCall("embed") EXCEPT !.out = q_emb],
                               StageCall("search")>>
         /\ qpc' = IF results' = <<>> THEN "gen_web_low" ELSE AfterSearch(results'[1].score)
         /\ result' = result
    /\ UNCHANGED <<df, embeddings, q, direct_ctx, ans>>
    /\ UNCHANGED <<bvars, xvars>>

\* a search that leaves the frame and the matrix sorted by score
VectorSearch_Reorders ==
    /\ qpc = "search"
    /\ \E q_emb \in QueryVecs :
       \E order \in ArgsortDesc([i \in 1..Len(embeddings) |-> Cosine(embeddings[i], q_emb)]) :
         /\ results' = search_embeddings(df, embeddings, q_emb, order, TopK)
         /\ df' = [k \in 1..Len(df) |-> df[order[k]]]
         /\ embeddings' = [k \in 1..Len(embeddings) |-> embeddings[order[k]]]
         /\ calls' = calls \o <<[StageCall("embed") EXCEPT !.out = q_emb],
                               StageCall("search")>>
         /\ IF results' = <<>>
            THEN /\ qpc' = "done"
                 /\ result' = HTTPException(StatusInternal)
            ELSE /\ qpc' = AfterSearch(results'[1].score)
                 /\ result' = result
    /\ UNCHANGED <<q, direct_ctx, ans>>
    /\ UNCHANGED <<bvars, xvars>>

VectorSearch ==
    /\ qpc = "search"
    /\ \E q_emb \in QueryVecs :
       \E order \in ArgsortDesc([i \in 1..Len(embeddings) |-> Cosine(embeddings[i], q_emb)]) :
         /\ results' = search_embeddings(df, embeddings, q_emb, order, TopK)
         /\ calls' = calls \o <<[StageCall("embed") EXCEPT !.out = q_emb],
                               StageCall("search")>>
         /\ IF results' = <<>>
            THEN /\ qpc' = "done"
                 /\ result' = HTTPException(StatusInternal)
            ELSE /\ qpc' = AfterSearch(results'[1].score)
                 /\ result' = result
    /\ UNCHANGED <<df, embeddings, q, direct_ctx, ans>>
    /\ UNCHANGED <<bvars, xvars>>

GenerateWebLow ==
    /\ qpc = "gen_web_low"
    /\ \E outcome \in GenOutcomes :
         LET call == GenCall(build_web_prompt(q), TempWeb, outcome)
         IN  /\ ans' = call.out
             /\ calls' = Append(calls, call)
             /\ result' = IF StartsWithError(call.out)
                          THEN HTTPException(StatusGenFailed)
                          ELSE Answer(call.out, "web")
    /\ qpc' = "done"
    /\ UNCHANGED <<df, embeddings, q, direct_ctx, results>>
    /\ UNCHANGED <<bvars, xvars>>

\* 3) KB mode: the top-k rows as context, then the 'Not found' check
GenerateKB ==
    /\ qpc = "gen_kb"
    /\ \E outcome \in GenOutcomes :
         LET context == [k \in 1..Len(results) |-> results[k].row]
             call == GenCall(build_kb_prompt(context, q), TempKB, outcome)
         IN  /\ ans' = call.out
             /\ calls' = Append(calls, call)
             /\ IF StartsWithError(call.out)
                THEN /\ qpc' = "done"
                     /\ result' = HTTPException(StatusGenFailed)
                ELSE IF NeedsWebFallback(call.out)
                THEN /\ qpc' = "gen_web_retry"
                     /\ result' = result
                ELSE /\ qpc' = "done"
                     /\ result' = Answer(call.out, "kb")
    /\ UNCHANGED <<df, embeddings, q, direct_ctx, results>>
    /\ UNCHANGED <<bvars, xvars>>

\* the web prompt after a discarded KB answer; ans keeps the KB answer
GenerateWebRetry ==
    /\ qpc = "gen_web_retry"
    /\ \E outcome \in GenOutcomes :
         LET call == GenCall(build_web_prompt(q), TempWeb, outcome)
         IN  /\ calls' = Append(calls, call)
             /\ result' = IF StartsWithError(call.out)
                          THEN HTTPException(StatusGenFailed)
                          ELSE Answer(call.out, "web")
    /\ qpc' = "done"
    /\ UNCHANGED <<df, embeddings, q, direct_ctx, results, ans>>
    /\ UNCHANGED <<bvars, xvars>>

\* client.models.generate_content is called without a timeout: when the
\* provider never answers, the call neither returns nor raises, and
\* query_endpoint stays in it
GenerateNoResponse ==
    /\ qpc \in {"gen_direct", "gen_web_low", "gen_kb", "gen_web_retry"}
    /\ qpc' = "blocked"
    /\ UNCHANGED <<df, embeddings, q, direct_ctx, results, ans, calls, result>>
    /\ UNCHANGED <<bvars, xvars>>

\* ------------------------------------------------------------------------
\* build_embeddings_hf.py: inputs
\* ------------------------------------------------------------------------
USER_MODEL == "paraphrase-MiniLM-L3-v2"
FALLBACK_MODEL == "paraphrase-mpnet-base-v2"

Fnames == {"ipc.csv"}

DocContents ==
    { <<>>,                          \* an empty file
      <<" ", "\r">>,                 \* whitespace only
      <<"a", "b">>,
      <<"a", "\r", "b", "c", "d">> }

DocumentLists ==
    UNION { [1..n -> [fname : Fnames, content : DocContents]] : n \in 0..MaxDocs }

\* the bodies a 200 response can carry, as res.json() sees them
BodyKinds == {"vectors", "short", "baddim", "object", "empty", "invalid"}

FailStatuses == {201, 429, 503}

\* what requests.post does: a response, ReadTimeout, or another exception
Responses ==
    { [kind |-> "http", status |-> StatusOK, body |-> b] : b \in BodyKinds }
        \cup { [kind |-> "http", status |-> s, body |-> "none"] : s \in FailStatuses }
        \cup { [kind |-> "timeout", status |-> 0, body |-> "none"],
               [kind |-> "error", status |-> 0, body |-> "none"] }

NoResponse == [kind |-> "none", status |-> 0, body |-> "none"]

DimOf(m) == IF m = USER_MODEL THEN 1 ELSE 2

\* the vector the provider running model m computes for a text
Vec(m, text) == [kind |-> "vector", model |-> m, text |-> text, dim |-> DimOf(m)]

JsonObject(m) == [kind |-> "object", model |-> m, text |-> <<>>, dim |-> 0]

OldVector == [kind |-> "vector", model |-> "old", text |-> <<"o">>, dim |-> 1]

OldRecord == [id |-> 0, title |-> "old.txt", text |-> <<"o">>, source |-> "old.txt"]

File(data) == [exists |-> TRUE, data |-> data]
NoFile == [exists |-> FALSE, data |-> <<>>]

Disks ==
    { [docstore |-> NoFile, embeddings |-> NoFile],
      [docstore |-> File(<<OldRecord>>), embeddings |-> File(<<OldVector>>)] }

\* ------------------------------------------------------------------------
\* chunk_text
\* ------------------------------------------------------------------------
\* a chunk_text that leaves carriage returns in the text
RemoveCR_Kept(s) == s

\* text.replace("\r", "")
RECURSIVE RemoveCR(_)
RemoveCR(s) ==
    IF s = <<>> THEN s
    ELSE IF Head(s) = "\r" THEN RemoveCR(Tail(s))
    ELSE <<Head(s)>> \o RemoveCR(Tail(s))

\* the while loop, from offset i (0-based); needs overlap < max_chars
RECURSIVE ChunkFrom(_, _, _, _)
ChunkFrom(text, i, max_chars, overlap) ==
    IF i < Len(text)
    THEN <<SubSeq(text, i + 1, IF i + max_chars < Len(text) THEN i + max_chars ELSE Len(text))>>
             \o ChunkFrom(text, i + max_chars - overlap, max_chars, overlap)
    ELSE <<>>

chunk_text(text, max_chars, overlap) == ChunkFrom(RemoveCR(text), 0, max_chars, overlap)

\* ------------------------------------------------------------------------
\* main: documents to docstore and texts
\* ------------------------------------------------------------------------
\* a loop that puts the chunks of each document in front of those collected
\* so far
RECURSIVE ChunkedDocs_DocsReversed(_)
ChunkedDocs_DocsReversed(docs) ==
    IF docs = <<>> THEN <<>>
    ELSE LET d == Head(docs)
             chunks == chunk_text(d.content, ChunkMaxChars, ChunkOverlap)
         IN  ChunkedDocs_DocsReversed(Tail(docs))
                 \o (IF Strip(d.content) = <<>> THEN <<>>
                     ELSE [k \in 1..Len(chunks) |-> [fname |-> d.fname, chunk |-> chunks[k]]])

\* a loop without the 'if not content.strip(): continue' test
RECURSIVE ChunkedDocs_NoSkip(_)
ChunkedDocs_NoSkip(docs) ==
    IF docs = <<>> THEN <<>>
    ELSE LET d == Head(docs)
             chunks == chunk_text(d.content, ChunkMaxChars, ChunkOverlap)
         IN  [k \in 1..Len(chunks) |-> [fname |-> d.fname, chunk |-> chunks[k]]]
                 \o ChunkedDocs_NoSkip(Tail(docs))

\* the (fname, chunk) pairs main's loop produces; blank documents are skipped
RECURSIVE ChunkedDocs(_)
ChunkedDocs(docs) ==
    IF docs = <<>> THEN <<>>
    ELSE LET d == Head(docs)
             chunks == chunk_text(d.content, ChunkMaxChars, ChunkOverlap)
         IN  (IF Strip(d.content) = <<>> THEN <<>>
              ELSE [k \in 1..Len(chunks) |-> [fname |-> d.fname, chunk |-> chunks[k]]])
                 \o ChunkedDocs(Tail(docs))

\* ids handed out after the increment
DocstoreOf_OneBased(docs) ==
    LET items == ChunkedDocs(docs)
    IN  [k \in 1..Len(items) |->
            [id |-> k, title |-> items[k].fname, text |-> items[k].chunk,
             source |-> items[k].fname]]

\* docstore[str(doc_id)] = {...}, doc_id counting from 0
DocstoreOf(docs) ==
    LET items == ChunkedDocs(docs)
    IN  [k \in 1..Len(items) |->
            [id |-> k - 1, title |-> items[k].fname, text |-> items[k].chunk,
             source |-> items[k].fname]]

TextsOf(docs) ==
    LET items == ChunkedDocs(docs)
    IN  [k \in 1..Len(items) |-> items[k].chunk]

\* ------------------------------------------------------------------------
\* batch_embed
\* ------------------------------------------------------------------------
\* a slice that always takes the head of the list
BatchAt_First(txts, i, batch_size) ==
    SubSeq(txts, 1, IF batch_size < Len(txts) THEN batch_size ELSE Len(txts))

\* batch = texts[i:i+batch_size]
BatchAt(txts, i, batch_size) ==
    SubSeq(txts, i + 1, IF i + batch_size < Len(txts) THEN i + batch_size ELSE Len(txts))

\* res.json() for a 200 response to a request for batch
ResJson(body, m, batch) ==
    LET all == [j \in 1..Len(batch) |-> Vec(m, batch[j])]
    IN  CASE body = "vectors" -> [raises |-> FALSE, islist |-> TRUE, items |-> all]
          [] body = "short" ->
                [raises |-> FALSE, islist |-> TRUE, items |-> SubSeq(all, 1, Len(all) - 1)]
          [] body = "baddim" ->
                [raises |-> FALSE, islist |-> TRUE,
                 items |-> [all EXCEPT ![1].dim = @ + 1]]
          [] body = "object" -> [raises |-> FALSE, islist |-> FALSE, items |-> <<>>]
          [] body = "empty" -> [raises |-> FALSE, islist |-> TRUE, items |-> <<>>]
          [] OTHER -> [raises |-> TRUE, islist |-> FALSE, items |-> <<>>]

\* every response with status 200 taken as a success
Succeeds_Any200(r, m, batch) == r.kind = "http" /\ r.status = StatusOK

\* the try block reaches 'break': status 200, the body parses, and out[0]
\* does not raise IndexError
Succeeds(r, m, batch) ==
    /\ r.kind = "http"
    /\ r.status = StatusOK
    /\ LET out == ResJson(r.body, m, batch)
       IN  /\ ~out.raises
           /\ out.islist => out.items # <<>>

\* what embeddings.extend(...) appends
Extension(r, m, batch) ==
    LET out == ResJson(r.body, m, batch)
    IN  IF out.islist THEN out.items ELSE <<JsonObject(m)>>

\* the same pause after every failure
BackoffSleep_Constant(a) == Backoff * 10

\* time.sleep(backoff * attempt), attempt already incremented; in tenths
BackoffSleep(a) == Backoff * a * 10

\* a loop with twice the attempts
MoreAttempts_Twice(a) == a < 2 * Retries

\* a loop that allows one attempt too many
MoreAttempts_OneMore(a) == a <= Retries

\* the while condition, tested after attempt += 1
MoreAttempts(a) == a < Retries

\* a result list that survives from one batch_embed call to the next
InitialEmbeddings_Kept == emb_acc

\* embeddings = [] at the start of a batch_embed call
InitialEmbeddings == <<>>

\* a main that swallows the second RuntimeError and goes on to write
OnExhausted_Continue(pc) == IF pc = "embed_primary" THEN "embed_fallback" ELSE "write_docstore"

\* where RuntimeError takes main: the except clause around the first
\* batch_embed call starts the second one; nothing catches the second
OnExhausted(pc) == IF pc = "embed_primary" THEN "embed_fallback" ELSE "done"

\* main ends with an uncaught exception (a traceback and a non-zero exit
\* status) only when the second batch_embed call raises; the early return for
\* an empty text list and the return after the writes are normal returns
Raises(res) == res = "failed"

\* a main that treats a length mismatch as fatal
AfterEmbed_Strict(n_embeddings, n_texts) ==
    IF n_embeddings # n_texts THEN "done" ELSE "write_docstore"

\* where main goes when batch_embed has returned: the length comparison only
\* prints a warning, the writes follow in either case
AfterEmbed(n_embeddings, n_texts) == "write_docstore"

\* ------------------------------------------------------------------------
\* main
\* ------------------------------------------------------------------------
BInit ==
    /\ documents \in DocumentLists
    /\ docstore = <<>>
    /\ texts = <<>>
    /\ model = USER_MODEL
    /\ bi = 0
    /\ attempt = 0
    /\ emb_acc = <<>>
    /\ emb_out = <<>>
    /\ bpc = "start"
    /\ resp = NoResponse
    /\ embed_calls = <<>>
    /\ nreq = 0
    /\ sent = 0
    /\ slept = 0
    /\ warned = FALSE
    /\ exact = TRUE
    /\ disk \in Disks
    /\ disk0 = disk
    /\ bresult = "running"

\* the builder is not running (the resolver is checked on its own)
BOff ==
    /\ documents = <<>>
    /\ docstore = <<>>
    /\ texts = <<>>
    /\ model = USER_MODEL
    /\ bi = 0
    /\ attempt = 0
    /\ emb_acc = <<>>
    /\ emb_out = <<>>
    /\ bpc = "off"
    /\ resp = NoResponse
    /\ embed_calls = <<>>
    /\ nreq = 0
    /\ sent = 0
    /\ slept = 0
    /\ warned = FALSE
    /\ exact = TRUE
    /\ disk = [docstore |-> NoFile, embeddings |-> NoFile]
    /\ disk0 = disk
    /\ bresult = "running"

\* load, chunk, fill docstore and texts; return early when there is no text,
\* else enter batch_embed(texts, USER_MODEL)
Prepare ==
    /\ bpc = "start"
    /\ docstore' = DocstoreOf(documents)
    /\ texts' = TextsOf(documents)
    /\ IF Len(texts') = 0
       THEN /\ bpc' = "done"
            /\ bresult' = "no_texts"
            /\ UNCHANGED <<embed_calls, emb_acc>>
       ELSE /\ bpc' = "embed_primary"
            /\ bresult' = bresult
            /\ embed_calls' = Append(embed_calls, USER_MODEL)
            /\ emb_acc' = InitialEmbeddings
    /\ UNCHANGED <<documents, model, bi, attempt, emb_out, resp, nreq,
                   sent, slept, warned, exact, disk, disk0>>
    /\ UNCHANGED <<qvars, xvars>>

\* one request that ends in 'break': the vectors are appended and the loop
\* moves to the next batch, or batch_embed returns and main compares lengths
EmbedSuccess ==
    /\ bpc \in {"embed_primary", "embed_fallback"}
    /\ \E r \in Responses :
         LET batch == BatchAt(texts, bi, BatchSize)
         IN  /\ Succeeds(r, model, batch)
             /\ resp' = r
             /\ emb_acc' = emb_acc \o Extension(r, model, batch)
             /\ exact' = (exact /\ r.body = "vectors")
    /\ nreq' = nreq + 1
    /\ slept' = SleepAfterBatch
    /\ IF bi + BatchSize < Len(texts)
       THEN /\ bi' = bi + BatchSize
            /\ attempt' = 0
            /\ sent' = 0
            /\ UNCHANGED <<bpc, emb_out, warned>>
       ELSE /\ bi' = bi
            /\ attempt' = attempt
            /\ sent' = sent + 1
            /\ emb_out' = emb_acc'
            /\ warned' = (Len(emb_acc') # Len(texts))
            /\ bpc' = AfterEmbed(Len(emb_acc'), Len(texts))
    /\ UNCHANGED <<documents, docstore, texts, model, embed_calls, disk, disk0, bresult>>
    /\ UNCHANGED <<qvars, xvars>>

\* one request that ends in attempt += 1 and the back-off sleep; when the
\* while loop runs out, RuntimeError leaves batch_embed: main catches it once
\* and calls batch_embed(texts, FALLBACK_MODEL), the second time it escapes
EmbedFailure ==
    /\ bpc \in {"embed_primary", "embed_fallback"}
    /\ \E r \in Responses :
         /\ ~Succeeds(r, model, BatchAt(texts, bi, BatchSize))
         /\ resp' = r
    /\ slept' = BackoffSleep(attempt + 1)
    /\ IF MoreAttempts(attempt + 1)
       THEN /\ attempt' = attempt + 1
            /\ sent' = sent + 1
            /\ nreq' = nreq + 1
            /\ UNCHANGED <<model, bi, emb_acc, bpc, embed_calls, exact, bresult>>
       ELSE /\ bpc' = OnExhausted(bpc)
            /\ IF bpc' = "embed_fallback"
               THEN /\ model' = FALLBACK_MODEL
                    /\ bi' = 0
                    /\ attempt' = 0
                    /\ sent' = 0
                    /\ nreq' = 0
                    /\ emb_acc' = InitialEmbeddings
                    /\ exact' = TRUE
                    /\ embed_calls' = Append(embed_calls, FALLBACK_MODEL)
                    /\ bresult' = bresult
               ELSE /\ attempt' = attempt + 1
                    /\ sent' = sent + 1
                    /\ nreq' = nreq + 1
                    /\ bresult' = "failed"
                    /\ UNCHANGED <<model, bi, emb_acc, embed_calls, exact>>
    /\ UNCHANGED <<documents, docstore, texts, emb_out, warned, disk, disk0>>
    /\ UNCHANGED <<qvars, xvars>>

\* json.dump(docstore, ...) into docstore.json
WriteDocstore ==
    /\ bpc = "write_docstore"
    /\ disk' = [disk EXCEPT !.docstore = File(docstore)]
    /\ bpc' = "write_embeddings"
    /\ UNCHANGED <<documents, docstore, texts, model, bi, attempt, emb_acc, emb_out,
                   resp, embed_calls, nreq, sent, slept, warned, exact, disk0, bresult>>
    /\ UNCHANGED <<qvars, xvars>>

\* json.dump(embeddings, ...) into embeddings.json, then main returns
WriteEmbeddings ==
    /\ bpc = "write_embeddings"
    /\ disk' = [disk EXCEPT !.embeddings = File(emb_out)]
    /\ bpc' = "done"
    /\ bresult' = "written"
    /\ UNCHANGED <<documents, docstore, texts, model, bi, attempt, emb_acc, emb_out,
                   resp, embed_calls, nreq, sent, slept, warned, exact, disk0>>
    /\ UNCHANGED <<qvars, xvars>>

\* ------------------------------------------------------------------------
\* build_index.py build_faiss_index, query.py main: a rebuild of the FAISS
\* index while a query process loads it
\* ------------------------------------------------------------------------
DocTexts == {"murder", "theft"}

\* the document lists main passes on (it returns early when there is none)
FaissDocumentLists ==
    UNION { [1..n -> [title : {"IPC"}, text : DocTexts]] : n \in 1..MaxDocs }

DefaultTopK == 3

TopKs == {1, DefaultTopK}

\* index.faiss as build number g writes it: row i is the normalized vector
\* model.encode computes for the text of documents[i], written as that text
IndexFile(docs, g) == [build |-> g, rows |-> [k \in 1..Len(docs) |-> docs[k].text]]

\* docstore.json: {str(i): doc for i, doc in enumerate(documents)}
DocstoreFile(docs, g) == [build |-> g, docs |-> docs]

NotLoaded == [build |-> -1]

\* a file that is not there, or that the reader's parser rejects
Unreadable == [build |-> -2]

\* the words a query text is made of, one word each
QueryWords == DocTexts \cup {"bail"}

\* the encoder is external: sc is the inner product of the query's vector
\* with the vector of each text; index.search ranks the rows by it
FaissOrders(rows, sc) ==
    { p \in Perms(Len(rows)) :
        \A a, b \in 1..Len(rows) : a < b => sc[rows[p[a]]] >= sc[rows[p[b]]] }

\* the loop over zip(scores[0], indices[0]): positions past the size of the
\* index hold -1 and are skipped; docstore[str(idx)] raises KeyError for an
\* idx the docstore has no record of
search_faiss_index(index, store, sc, order, top_k) ==
    LET n == IF top_k < Len(index.rows) THEN top_k ELSE Len(index.rows)
    IN  IF \E pos \in 1..n : order[pos] > Len(store.docs)
        THEN [raised |-> "KeyError", error |-> "", items |-> <<>>]
        ELSE [raised |-> "", error |-> "",
              items |-> [pos \in 1..n |->
                            [id |-> order[pos] - 1,
                             score |-> sc[index.rows[order[pos]]],
                             title |-> store.docs[order[pos]].title,
                             text |-> store.docs[order[pos]].text]]]

NoResults == [raised |-> "", error |-> "", items |-> <<>>]

\* the Jaccard similarity of two one-word texts
Jaccard(query_word, text) == IF query_word = text THEN 1 ELSE 0

\* scores.sort(reverse=True) on the (score, doc_id) tuples: p is a position,
\* the result the index of the document placed there
RECURSIVE SortedDesc(_, _)
SortedDesc(score, ids) ==
    IF ids = {} THEN <<>>
    ELSE LET top == CHOOSE i \in ids :
                       \A j \in ids \ {i} :
                          score[i] > score[j] \/ (score[i] = score[j] /\ i > j)
         IN  <<top>> \o SortedDesc(score, ids \ {top})

\* word matching over the docstore; the embeddings are loaded and not used
search_basic_index(query_word, store, top_k) ==
    LET score == [i \in 1..Len(store.docs) |-> Jaccard(query_word, store.docs[i].text)]
        order == Take(SortedDesc(score, 1..Len(store.docs)), top_k)
    IN  [raised |-> "", error |-> "",
         items |-> [pos \in 1..Len(order) |->
                       [id |-> order[pos] - 1,
                        score |-> score[order[pos]],
                        title |-> store.docs[order[pos]].title,
                        text |-> store.docs[order[pos]].text]]]

\* an empty list in place of the error record
NoIndexAvailable_Empty == NoResults

\* results = [{"error": "No index available"}]
NoIndexAvailable == [raised |-> "", error |-> "No index available", items |-> <<>>]

RInit ==
    /\ \E old \in FaissDocumentLists :
         rag \in [index : {IndexFile(old, 0), Unreadable},
                  npy : {IndexFile(old, 0), Unreadable},
                  docstore : {DocstoreFile(old, 0), Unreadable}]
    /\ new_documents \in FaissDocumentLists
    /\ fpc \in {"write_index", "basic_npy"}
    /\ kpc = "load_index"
    /\ k_faiss \in BOOLEAN
    /\ k_index = NotLoaded
    /\ k_npy = NotLoaded
    /\ k_docstore = NotLoaded
    /\ k_top \in TopKs
    /\ k_results = NoResults

\* neither script is running
ROff ==
    /\ rag = [index |-> NotLoaded, npy |-> NotLoaded, docstore |-> NotLoaded]
    /\ new_documents = <<>>
    /\ fpc = "off"
    /\ kpc = "off"
    /\ k_faiss = FALSE
    /\ k_index = NotLoaded
    /\ k_npy = NotLoaded
    /\ k_docstore = NotLoaded
    /\ k_top = DefaultTopK
    /\ k_results = NoResults

\* faiss.write_index(index, "server/rag/index.faiss")
WriteIndexFile ==
    /\ fpc = "write_index"
    /\ rag' = [rag EXCEPT !.index = IndexFile(new_documents, 1)]
    /\ fpc' = "save_npy"
    /\ UNCHANGED <<new_documents, kpc, k_faiss, k_index, k_npy, k_docstore, k_top,
                   k_results>>
    /\ UNCHANGED <<qvars, bvars, cvars, svars>>

\* np.save("server/rag/embeddings.npy", embeddings)
SaveNpy ==
    /\ fpc = "save_npy"
    /\ rag' = [rag EXCEPT !.npy = IndexFile(new_documents, 1)]
    /\ fpc' = "write_docstore"
    /\ UNCHANGED <<new_documents, kpc, k_faiss, k_index, k_npy, k_docstore, k_top,
                   k_results>>
    /\ UNCHANGED <<qvars, bvars, cvars, svars>>

\* json.dump(docstore, f, ...) into server/rag/docstore.json
WriteDocstoreFile ==
    /\ fpc = "write_docstore"
    /\ rag' = [rag EXCEPT !.docstore = DocstoreFile(new_documents, 1)]
    /\ fpc' = "done"
    /\ UNCHANGED <<new_documents, kpc, k_faiss, k_index, k_npy, k_docstore, k_top,
                   k_results>>
    /\ UNCHANGED <<qvars, bvars, cvars, svars>>

\* main's except clause: SentenceTransformer(...) or a statement of
\* build_faiss_index raises (before the statement fpc is at has written),
\* and main falls back to basic indexing of the same documents
FaissFails ==
    /\ fpc \in {"write_index", "save_npy", "write_docstore"}
    /\ fpc' = "basic_npy"
    /\ UNCHANGED <<rag, new_documents, kpc, k_faiss, k_index, k_npy, k_docstore, k_top,
                   k_results>>
    /\ UNCHANGED <<qvars, bvars, cvars, svars>>

\* build_basic_index: np.save("server/rag/embeddings.npy", normalized_embeddings),
\* one row per document
BasicSaveNpy ==
    /\ fpc = "basic_npy"
    /\ rag' = [rag EXCEPT !.npy = IndexFile(new_documents, 1)]
    /\ fpc' = "basic_docstore"
    /\ UNCHANGED <<new_documents, kpc, k_faiss, k_index, k_npy, k_docstore, k_top,
                   k_results>>
    /\ UNCHANGED <<qvars, bvars, cvars, svars>>

\* build_basic_index: json.dump(docstore, f, ...) into server/rag/docstore.json
BasicWriteDocstore ==
    /\ fpc = "basic_docstore"
    /\ rag' = [rag EXCEPT !.docstore = DocstoreFile(new_documents, 1)]
    /\ fpc' = "done"
    /\ UNCHANGED <<new_documents, kpc, k_faiss, k_index, k_npy, k_docstore, k_top,
                   k_results>>
    /\ UNCHANGED <<qvars, bvars, cvars, svars>>

\* load_faiss_index: without the two packages it returns at once; else
\* faiss.read_index("server/rag/index.faiss"), whose failure is caught
LoadIndex ==
    /\ kpc = "load_index"
    /\ IF k_faiss /\ rag.index # Unreadable
       THEN /\ k_index' = rag.index
            /\ kpc' = "load_docstore"
       ELSE /\ k_index' = NotLoaded
            /\ kpc' = "load_npy"
    /\ UNCHANGED <<rag, new_documents, fpc, k_faiss, k_npy, k_docstore, k_top, k_results>>
    /\ UNCHANGED <<qvars, bvars, cvars, svars>>

\* load_faiss_index: json.load of server/rag/docstore.json; a failure is
\* caught and the index read before it is dropped
LoadDocstore ==
    /\ kpc = "load_docstore"
    /\ IF rag.docstore # Unreadable
       THEN /\ k_docstore' = rag.docstore
            /\ k_index' = k_index
            /\ kpc' = "search"
       ELSE /\ k_docstore' = NotLoaded
            /\ k_index' = NotLoaded
            /\ kpc' = "load_npy"
    /\ UNCHANGED <<rag, new_documents, fpc, k_faiss, k_npy, k_top, k_results>>
    /\ UNCHANGED <<qvars, bvars, cvars, svars>>

\* main: results = search_faiss_index(query_text, index, model, docstore, top_k)
SearchFaiss ==
    /\ kpc = "search"
    /\ \E sc \in [DocTexts -> 0..1] :
         \E order \in FaissOrders(k_index.rows, sc) :
            k_results' = search_faiss_index(k_index, k_docstore, sc, order, k_top)
    /\ kpc' = "done"
    /\ UNCHANGED <<rag, new_documents, fpc, k_faiss, k_index, k_npy, k_docstore, k_top>>
    /\ UNCHANGED <<qvars, bvars, cvars, svars>>

\* load_basic_index: np.load("server/rag/embeddings.npy"); when it fails
\* neither index loaded and main's results are the error record
LoadNpy ==
    /\ kpc = "load_npy"
    /\ IF rag.npy # Unreadable
       THEN /\ k_npy' = rag.npy
            /\ kpc' = "load_docstore_basic"
            /\ k_results' = k_results
       ELSE /\ k_npy' = NotLoaded
            /\ kpc' = "done"
            /\ k_results' = NoIndexAvailable
    /\ UNCHANGED <<rag, new_documents, fpc, k_faiss, k_index, k_docstore, k_top>>
    /\ UNCHANGED <<qvars, bvars, cvars, svars>>

\* load_basic_index: json.load of server/rag/docstore.json
LoadDocstoreBasic ==
    /\ kpc = "load_docstore_basic"
    /\ IF rag.docstore # Unreadable
       THEN /\ k_docstore' = rag.docstore
            /\ k_npy' = k_npy
            /\ kpc' = "search_basic"
            /\ k_results' = k_results
       ELSE /\ k_docstore' = NotLoaded
            /\ k_npy' = NotLoaded
            /\ kpc' = "done"
            /\ k_results' = NoIndexAvailable
    /\ UNCHANGED <<rag, new_documents, fpc, k_faiss, k_index, k_top>>
    /\ UNCHANGED <<qvars, bvars, cvars, svars>>

\* main: results = search_basic_index(query_text, embeddings, docstore, top_k)
SearchBasic ==
    /\ kpc = "search_basic"
    /\ \E query_word \in QueryWords :
         k_results' = search_basic_index(query_word, k_docstore, k_top)
    /\ kpc' = "done"
    /\ UNCHANGED <<rag, new_documents, fpc, k_faiss, k_index, k_npy, k_docstore, k_top>>
    /\ UNCHANGED <<qvars, bvars, cvars, svars>>

\* ------------------------------------------------------------------------
\* chunk_text, statement by statement
\* ------------------------------------------------------------------------
\* the texts of letters, and the short texts with blanks and carriage returns
ChunkTexts ==
    UNION { [1..n -> {"a", "b"}] : n \in 0..MaxTextLen }
        \cup UNION { [1..n -> {" ", "\r", "a"}] : n \in 0..2 }

ChunkArgs ==
    [text : ChunkTexts, max_chars : 1..MaxWindow, overlap : 0..(MaxWindow + 1)]

\* a slice bound as Python normalizes it: negative counts from the end, and
\* the result is clipped to 0..len
SliceBound(x, len) ==
    IF x < 0 THEN (IF x + len < 0 THEN 0 ELSE x + len)
    ELSE (IF x > len THEN len ELSE x)

\* s[a:b]
PySlice(s, a, b) ==
    SubSeq(s, SliceBound(a, Len(s)) + 1, SliceBound(b, Len(s)))

\* a window that moves on by its whole width
NextOffset_NoOverlap(i, max_chars, overlap) == i + max_chars

\* i += max_chars - overlap
NextOffset(i, max_chars, overlap) == i + max_chars - overlap

CInit ==
    /\ c_in \in ChunkArgs
    /\ c_text = c_in.text
    /\ c_i = 0
    /\ c_parts = <<>>
    /\ c_pc = "start"

\* chunk_text is not running
COff ==
    /\ c_in = [text |-> <<>>, max_chars |-> 1, overlap |-> 0]
    /\ c_text = <<>>
    /\ c_i = 0
    /\ c_parts = <<>>
    /\ c_pc = "off"

\* text = text.replace("\r", ""); parts = []; i = 0
ChunkStart ==
    /\ c_pc = "start"
    /\ c_text' = RemoveCR(c_in.text)
    /\ c_parts' = <<>>
    /\ c_i' = 0
    /\ c_pc' = "loop"
    /\ UNCHANGED c_in
    /\ UNCHANGED <<qvars, bvars, rvars, svars>>

\* one pass of the while body.  A call that terminates makes at most
\* len(text) passes; the model stops following a call after MaxTextLen + 1
ChunkIter ==
    /\ c_pc = "loop"
    /\ c_i < Len(c_text)
    /\ Len(c_parts) <= MaxTextLen
    /\ c_parts' = Append(c_parts, PySlice(c_text, c_i, c_i + c_in.max_chars))
    /\ c_i' = NextOffset(c_i, c_in.max_chars, c_in.overlap)
    /\ UNCHANGED <<c_in, c_text, c_pc>>
    /\ UNCHANGED <<qvars, bvars, rvars, svars>>

\* the while condition fails: return parts
ChunkReturn ==
    /\ c_pc = "loop"
    /\ ~(c_i < Len(c_text))
    /\ c_pc' = "done"
    /\ UNCHANGED <<c_in, c_text, c_i, c_parts>>
    /\ UNCHANGED <<qvars, bvars, rvars, svars>>

\* ------------------------------------------------------------------------
\* split_text_into_chunks (build_index.py; simple_build_index.py has the
\* same function)
\* ------------------------------------------------------------------------
SplitTexts == UNION { [1..n -> {"a", " ", "."}] : n \in 0..MaxTextLen }

SplitArgs == [text : SplitTexts, max_length : 1..MaxWindow, overlap : 0..1]

IsTerminator(c) == c \in {".", "!", "?"}

RECURSIVE DropTerminators(_)
DropTerminators(s) ==
    IF s # <<>> /\ IsTerminator(Head(s)) THEN DropTerminators(Tail(s)) ELSE s

\* re.split(r'[.!?]+', text), cur being the piece read so far
RECURSIVE SplitRe(_, _)
SplitRe(s, cur) ==
    IF s = <<>> THEN <<cur>>
    ELSE IF IsTerminator(Head(s))
         THEN <<cur>> \o SplitRe(DropTerminators(Tail(s)), <<>>)
         ELSE SplitRe(Tail(s), Append(cur, Head(s)))

\* current_chunk[-overlap:] if len(current_chunk) > overlap else current_chunk
OverlapText(current_chunk, overlap) ==
    IF Len(current_chunk) > overlap
    THEN PySlice(current_chunk, 0 - overlap, Len(current_chunk))
    ELSE current_chunk

\* the for loop over the sentences and the final append
RECURSIVE SplitLoop(_, _, _, _, _)
SplitLoop(sentences, current_chunk, chunks, max_length, overlap) ==
    IF sentences = <<>>
    THEN (IF current_chunk # <<>> THEN Append(chunks, current_chunk) ELSE chunks)
    ELSE LET sentence == Strip(Head(sentences))
             rest == Tail(sentences)
         IN  IF sentence = <<>>
             THEN SplitLoop(rest, current_chunk, chunks, max_length, overlap)
             ELSE IF Len(current_chunk) + Len(sentence) + 1 <= max_length
             THEN SplitLoop(rest,
                            IF current_chunk # <<>>
                            THEN current_chunk \o <<".", " ">> \o sentence
                            ELSE sentence,
                            chunks, max_length, overlap)
             ELSE IF current_chunk # <<>>
             THEN SplitLoop(rest,
                            OverlapText(current_chunk, overlap) \o <<".", " ">> \o sentence,
                            Append(chunks, current_chunk), max_length, overlap)
             ELSE SplitLoop(rest, sentence, chunks, max_length, overlap)

split_text_into_chunks(text, max_length, overlap) ==
    SplitLoop(SplitRe(text, <<>>), <<>>, <<>>, max_length, overlap)

SInit ==
    /\ s_in \in SplitArgs
    /\ s_chunks = <<>>
    /\ s_pc = "start"

\* split_text_into_chunks is not running
SOff ==
    /\ s_in = [text |-> <<>>, max_length |-> 1, overlap |-> 0]
    /\ s_chunks = <<>>
    /\ s_pc = "off"

\* chunks = split_text_into_chunks(content, max_length, overlap)
SplitCall ==
    /\ s_pc = "start"
    /\ s_chunks' = split_text_into_chunks(s_in.text, s_in.max_length, s_in.overlap)
    /\ s_pc' = "done"
    /\ UNCHANGED s_in
    /\ UNCHANGED <<qvars, bvars, rvars, cvars>>

\* ------------------------------------------------------------------------
\* Specifications
\* ------------------------------------------------------------------------
QNext ==
    \/ Receive
    \/ StructuralLookup
    \/ GenerateDirect
    \/ VectorSearch
    \/ GenerateWebLow
    \/ GenerateKB
    \/ GenerateWebRetry
    \/ GenerateNoResponse

BNext ==
    \/ Prepare
    \/ EmbedSuccess
    \/ EmbedFailure
    \/ WriteDocstore
    \/ WriteEmbeddings

\* the query service over a loaded index
Init == QInit /\ BOff /\ ROff /\ COff /\ SOff

Next == QNext

Spec == Init /\ [][Next]_vars

\* one run of the index builder
BuildInit == BInit /\ QOff /\ ROff /\ COff /\ SOff

BuildSpec == BuildInit /\ [][BNext]_vars

RNext ==
    \/ WriteIndexFile
    \/ SaveNpy
    \/ WriteDocstoreFile
    \/ FaissFails
    \/ BasicSaveNpy
    \/ BasicWriteDocstore
    \/ LoadIndex
    \/ LoadDocstore
    \/ SearchFaiss
    \/ LoadNpy
    \/ LoadDocstoreBasic
    \/ SearchBasic

\* one rebuild by build_index.py next to one run of query.py
ReloadInit == RInit /\ QOff /\ BOff /\ COff /\ SOff

ReloadSpec == ReloadInit /\ [][RNext]_vars

CNext ==
    \/ ChunkStart
    \/ ChunkIter
    \/ ChunkReturn

\* one call of chunk_text
ChunkInit == CInit /\ QOff /\ BOff /\ ROff /\ SOff

ChunkSpec == ChunkInit /\ [][CNext]_vars

SNext == SplitCall

\* one call of split_text_into_chunks
SplitInit == SInit /\ QOff /\ BOff /\ ROff /\ COff

SplitSpec == SplitInit /\ [][SNext]_vars

\* ------------------------------------------------------------------------
\* Properties of the query resolver (checked under Spec)
\* ------------------------------------------------------------------------
OpsOf(cs) == [k \in 1..Len(cs) |-> cs[k].op]

IsPrefix(s, t) == Len(s) <= Len(t) /\ SubSeq(t, 1, Len(s)) = s

GenCalls == { k \in 1..Len(calls) : calls[k].op = "generate" }

\* the rows whose title matches the identifier the query refers to
HitRows ==
    LET sec == SectionOf(q)
    IN  IF sec = None THEN {} ELSE { i \in 1..Len(df) : TitleContains(df[i].title, sec) }

LookupDone == Len(calls) >= 1 /\ calls[1].op = "lookup"

SearchDone == \E k \in 1..Len(calls) : calls[k].op = "search"

\* the value of a call is usable as an answer: the call did not fail and
\* its value does not carry the "ERROR:" marker
Usable(call) == ~call.failed /\ ~(call.out # <<>> /\ call.out[1] = "ERROR:")

\* the three orders in which the stages can run for one query
StageOrders ==
    { <<"lookup", "generate">>,
      <<"lookup", "embed", "search", "generate">>,
      <<"lookup", "embed", "search", "generate", "generate">> }

\* C1: the stages of one query run in the fixed order lookup, embedding,
\* search, generation; and when the structural lookup finds a fragment whose
\* title matches the referenced identifier, no query embedding and no vector
\* search is performed, the only generation call is Generate(context, query)
\* over exactly the matching fragments, and a returned answer is that call's.
C1_StructuralBypass ==
    /\ \E o \in StageOrders : IsPrefix(OpsOf(calls), o)
    /\ (Len(calls) >= 2 /\ LookupDone /\ HitRows # {}) =>
         /\ \A k \in 1..Len(calls) : calls[k].op \notin {"embed", "search"}
         /\ \A k \in GenCalls :
              /\ calls[k].prompt = [kind |-> "kb", context |-> SetToSeq(HitRows), query |-> q]
              /\ qpc = "done"
              /\ Usable(calls[k]) =>
                   result = [kind |-> "answer", answer |-> calls[k].out,
                             source |-> "kb", status |-> StatusOK]
         /\ qpc = "done" => Cardinality(GenCalls) = 1

C1_Witness ==
    /\ qpc = "done"
    /\ HitRows = {1, 2}
    /\ result.kind = "answer"
    /\ result.source = "kb"
    /\ Len(calls) = 2

\* the first search result has a score below 0.40 = 2/5
TopScoreBelowThreshold ==
    /\ results # <<>>
    /\ results[1].score.n # 0
    /\ \/ results[1].score.dot < 0
       \/ 25 * results[1].score.dot * results[1].score.dot < 4 * results[1].score.n

\* C2: for a query with no structural match whose top search result scores
\* below 0.40, no generation call carries KB context, the one generation
\* call made is GenerateWeb(query) with no retrieved context, and its answer
\* is returned with source web (a failed call ends in the error of C4).
C2_LowScoreGoesWeb ==
    (SearchDone /\ TopScoreBelowThreshold /\ HitRows = {}) =>
        /\ \A k \in GenCalls :
             /\ calls[k].prompt = [kind |-> "web", context |-> None, query |-> q]
             /\ qpc = "done"
             /\ Usable(calls[k]) =>
                  result = [kind |-> "answer", answer |-> calls[k].out,
                            source |-> "web", status |-> StatusOK]
        /\ qpc = "done" => Cardinality(GenCalls) = 1
        /\ qpc # "gen_kb"

C2_Witness ==
    /\ qpc = "done"
    /\ SearchDone
    /\ HitRows = {}
    /\ TopScoreBelowThreshold
    /\ results[1].score.dot = 0
    /\ result.kind = "answer"
    /\ result.source = "web"

\* the answer contains the sentinel or has fewer than 5 words
Insufficient(a) ==
    \/ Len(a) < 5
    \/ \E p \in 1..Len(a) :
         /\ p + 4 <= Len(a)
         /\ SubSeq(a, p, p + 4) = <<"Not", "found", "in", "knowledge", "base">>

\* the KB-context generation call made after a vector search
KBCallAfterSearch(k) ==
    /\ k \in GenCalls
    /\ calls[k].prompt.kind = "kb"
    /\ SearchDone

\* C3: on the vector-search path, a KB-context answer that contains the
\* sentinel or has fewer than 5 words is discarded: GenerateWeb(query) is the
\* next call, and the result returned is the web answer with source web
\* (a failed web call ends in the error of C4), never the discarded answer
\* as a KB result.
C3_PostCheckGoesWeb ==
    \A k \in 1..Len(calls) :
        (KBCallAfterSearch(k) /\ Usable(calls[k]) /\ Insufficient(calls[k].out)) =>
            /\ qpc \in {"gen_web_retry", "blocked", "done"}
            /\ qpc \in {"gen_web_retry", "blocked"} => (Len(calls) = k /\ result.kind = "none")
            /\ qpc = "done" =>
                 /\ Len(calls) = k + 1
                 /\ calls[k + 1].op = "generate"
                 /\ calls[k + 1].prompt = [kind |-> "web", context |-> None, query |-> q]
                 /\ result.source # "kb"
                 /\ Usable(calls[k + 1]) =>
                      result = [kind |-> "answer", answer |-> calls[k + 1].out,
                                source |-> "web", status |-> StatusOK]

C3_Witness ==
    /\ qpc = "done"
    /\ Len(calls) = 5
    /\ calls[4].out = <<"w", "w", "w", "w">>
    /\ result.kind = "answer"
    /\ result.source = "web"
    /\ result.answer = <<"w", "w", "w", "w", "w">>

\* C4: when a generation call fails (quota or any other adapter error), on
\* the structural, KB, low-confidence web or second-chance web path, it is
\* the last call of the query, and the query ends in an error result: no
\* answer is returned, not even the KB answer discarded before a failed
\* second-chance web call.
C4_GenerationFailureIsError ==
    \A k \in GenCalls :
        calls[k].failed =>
            /\ k = Len(calls)
            /\ qpc = "done"
            /\ result.kind = "error"
            /\ result.answer = None
            /\ result.source = ""

C4_Witness ==
    /\ qpc = "done"
    /\ Len(calls) = 5
    /\ Usable(calls[4])
    /\ calls[5].failed
    /\ result.kind = "error"

\* C5: an answer with source kb is the value of the one generation call of
\* the structural path, or of a KB-context call after a search whose answer
\* passed the post-generation check; an answer with source web is the value
\* of the last call, a GenerateWeb call whose prompt has no retrieved context.
C5_SourceTagsMatchPath ==
    result.kind = "answer" =>
        /\ qpc = "done"
        /\ result.source \in {"kb", "web"}
        /\ LET last == calls[Len(calls)]
           IN  /\ last.op = "generate"
               /\ result.answer = last.out
               /\ result.source = "kb" =>
                    /\ last.prompt.kind = "kb"
                    /\ \/ /\ HitRows # {}
                          /\ ~SearchDone
                          /\ last.prompt.context = SetToSeq(HitRows)
                       \/ /\ SearchDone
                          /\ ~Insufficient(last.out)
                          /\ last.prompt.context = [j \in 1..Len(results) |-> results[j].row]
               /\ result.source = "web" =>
                    /\ last.prompt.kind = "web"
                    /\ last.prompt.context = None

C5_Witness ==
    /\ qpc = "done"
    /\ result.kind = "answer"
    /\ result.source = "kb"
    /\ SearchDone
    /\ Len(results) = 2

\* ------------------------------------------------------------------------
\* Properties of the index builder (checked under BuildSpec)
\* ------------------------------------------------------------------------
Embedding == {"embed_primary", "embed_fallback"}

\* the number of texts in the batch the loop is at
CurBatchLen == IF Len(texts) - bi < BatchSize THEN Len(texts) - bi ELSE BatchSize

\* a response batch_embed does not accept for a batch of n texts: anything
\* but status 200 with a body that parses to something other than []
Rejected(r, n) ==
    \/ r.kind # "http"
    \/ r.status # 200
    \/ r.body \in {"empty", "invalid"}
    \/ r.body = "short" /\ n = 1

Is2xx(r) == r.kind = "http" /\ r.status \in 200..299

AllFrom(vs, m) == \A k \in 1..Len(vs) : vs[k].model = m

\* the step completes the current batch
BatchCompleted ==
    \/ bi' = bi + BatchSize /\ bpc' = bpc
    \/ bpc' = "write_docstore"

\* the step is a failed attempt that leaves the loop at the same batch
AttemptCounted ==
    /\ attempt' = attempt + 1
    /\ sent' = sent + 1
    /\ bi' = bi
    /\ bpc' = bpc
    /\ emb_acc' = emb_acc

\* the step makes the running batch_embed call fail
ProviderFails ==
    \/ bpc = "embed_primary" /\ bpc' = "embed_fallback"
    \/ bpc = "embed_fallback" /\ bpc' = "done" /\ bresult' = "failed"

C6_Inv ==
    /\ embed_calls \in {<<>>, <<USER_MODEL>>, <<USER_MODEL, FALLBACK_MODEL>>}
    /\ bpc = "embed_fallback" =>
         /\ embed_calls = <<USER_MODEL, FALLBACK_MODEL>>
         /\ AllFrom(emb_acc, FALLBACK_MODEL)
         /\ bi = 0 => emb_acc = <<>>
    /\ (Len(embed_calls) = 2 /\ bpc = "done") =>
         \/ /\ bresult = "written"
            /\ disk.docstore = [exists |-> TRUE, data |-> docstore]
            /\ disk.embeddings.exists
            /\ disk.embeddings.data # <<>>
            /\ AllFrom(disk.embeddings.data, FALLBACK_MODEL)
            /\ exact => \A k \in 1..Len(texts) :
                          disk.embeddings.data[k].text = texts[k]
         \/ /\ bresult = "failed"
            /\ sent = Retries
            /\ Rejected(resp, CurBatchLen)

C6_Act ==
    (bpc = "embed_primary" /\ attempt = Retries - 1 /\ Rejected(resp', CurBatchLen)) =>
        /\ bpc' = "embed_fallback"
        /\ model' = FALLBACK_MODEL
        /\ bi' = 0
        /\ attempt' = 0
        /\ emb_acc' = <<>>
        /\ embed_calls' = <<USER_MODEL, FALLBACK_MODEL>>

\* C6: when the attempts for some batch run out on the primary model, the
\* builder calls batch_embed for the fallback model, once, over the whole
\* text list from the first batch on with an empty result list; when that
\* call returns the build writes its output, and every vector written was
\* returned by the fallback model.
C6_FallbackOnceOverAll == [](C6_Inv) /\ [][C6_Act]_vars

C6_Witness ==
    /\ bresult = "written"
    /\ embed_calls = <<USER_MODEL, FALLBACK_MODEL>>
    /\ Len(texts) = 3
    /\ exact
    /\ AllFrom(disk.embeddings.data, FALLBACK_MODEL)

C7_Inv ==
    /\ Len(embed_calls) <= 2
    /\ bresult = "failed" =>
         /\ bpc = "done"
         /\ embed_calls = <<USER_MODEL, FALLBACK_MODEL>>
         /\ disk = disk0

C7_Act ==
    /\ (bpc = "embed_fallback" /\ attempt = Retries - 1 /\ Rejected(resp', CurBatchLen)) =>
         /\ bresult' = "failed"
         /\ bpc' = "done"
         /\ disk' = disk
         /\ embed_calls' = embed_calls
    /\ bresult = "failed" => UNCHANGED <<disk, embed_calls, bpc, bresult>>

\* C7: when the attempts for some batch run out on the fallback model too,
\* the build fails: batch_embed is not called a third time, and both files
\* are exactly as they were when the run started.
C7_FallbackFailureWritesNothing == [](C7_Inv) /\ [][C7_Act]_vars

C7_Witness ==
    /\ bresult = "failed"
    /\ disk0.docstore.exists
    /\ disk = disk0
    /\ resp.kind = "timeout"

C8_Inv ==
    /\ sent <= Retries
    /\ attempt <= Retries
    /\ bpc \in Embedding => attempt < Retries

\* C8 as claimed: at most `retries` attempts per batch, every non-2xx
\* response, timeout or transport error is one failed attempt, the first 2xx
\* response completes the batch, and `retries` failed attempts fail the
\* provider's embedding operation.
C8_Original_Act ==
    bpc \in Embedding =>
        /\ Is2xx(resp') => BatchCompleted
        /\ ~Is2xx(resp') =>
             IF attempt + 1 < Retries THEN AttemptCounted ELSE ProviderFails

C8_Original == [](C8_Inv) /\ [][C8_Original_Act]_vars

C8_Act ==
    bpc \in Embedding =>
        /\ ~Rejected(resp', CurBatchLen) =>
             /\ BatchCompleted
             /\ Len(emb_acc') > Len(emb_acc)
        /\ Rejected(resp', CurBatchLen) =>
             IF attempt + 1 < Retries THEN AttemptCounted ELSE ProviderFails

\* C8 (amended): for each batch the call is attempted at most `retries`
\* times; the batch is completed, with no further request for it, by the
\* first response that has status 200 and a body that parses to something
\* other than an empty list; every other response (a non-2xx status, a 2xx
\* status other than 200, a 200 whose body does not parse or is an empty
\* list), timeout or transport error is one failed attempt; `retries` failed
\* attempts fail the embedding operation for that provider.
C8_AttemptsPerBatch == [](C8_Inv) /\ [][C8_Act]_vars

C8_Witness ==
    /\ bpc = "write_docstore"
    /\ sent = Retries
    /\ attempt = Retries - 1
    /\ resp.status = 200

Returned == bpc \in {"write_docstore", "write_embeddings"} \/ bresult = "written"

\* C9: when every accepted batch response carried one vector per input in
\* input order, the list batch_embed returns has as many entries as texts,
\* and entry i is the vector of texts[i] by the model of that call.
C9_ResultAlignedWithTexts ==
    (Returned /\ exact) =>
        /\ Len(emb_out) = Len(texts)
        /\ \A k \in 1..Len(texts) :
             emb_out[k] = [kind |-> "vector", model |-> model, text |-> texts[k],
                           dim |-> IF model = USER_MODEL THEN 1 ELSE 2]

C9_Witness ==
    /\ Returned
    /\ exact
    /\ Len(texts) = 3
    /\ nreq = 5
    /\ bi = 2

\* record k of the metadata table has id k-1 and row k of the vector table
\* is a vector of its text
Aligned ==
    /\ disk.docstore.exists
    /\ disk.embeddings.exists
    /\ Len(disk.embeddings.data) = Len(disk.docstore.data)
    /\ \A k \in 1..Len(disk.docstore.data) :
         /\ disk.docstore.data[k].id = k - 1
         /\ k <= Len(disk.embeddings.data) =>
              /\ disk.embeddings.data[k].kind = "vector"
              /\ disk.embeddings.data[k].text = disk.docstore.data[k].text

\* C10 as claimed: after every build that writes output the vector table
\* has exactly one vector per fragment record, in the same id order.
C10_Original == bresult = "written" => Aligned

\* C10 (amended): after every build that writes output both files exist and
\* the metadata table holds the records 0..n-1 in id order; the vector table
\* has exactly one vector per record, in the same order, whenever every
\* accepted embedding response carried one vector per input (otherwise the
\* build only warns that the lengths differ and writes both files all the same).
C10_AlignedWhenResponsesExact ==
    bresult = "written" =>
        /\ disk.docstore.exists
        /\ disk.embeddings.exists
        /\ \A k \in 1..Len(disk.docstore.data) : disk.docstore.data[k].id = k - 1
        /\ exact => Aligned
        /\ ~Aligned => (warned \/ ~exact)

C10_Witness ==
    /\ bresult = "written"
    /\ exact
    /\ Len(disk.docstore.data) = 4
    /\ Aligned

C11_Inv ==
    /\ warned <=> (Returned /\ Len(emb_out) # Len(texts))
    /\ warned => bresult \in {"running", "written"}
    /\ (warned /\ bresult = "written") =>
         /\ bpc = "done"
         /\ disk.docstore = [exists |-> TRUE, data |-> docstore]
         /\ disk.embeddings = [exists |-> TRUE, data |-> emb_out]

C11_Act ==
    /\ (bpc \in Embedding /\ bpc' \notin Embedding /\ ~Rejected(resp', CurBatchLen)
            /\ Len(emb_acc') # Len(texts)) =>
         /\ warned'
         /\ bpc' = "write_docstore"
         /\ bresult' = "running"
    /\ (warned /\ bpc = "write_docstore") =>
         /\ bpc' = "write_embeddings"
         /\ disk'.docstore = [exists |-> TRUE, data |-> docstore]
    /\ (warned /\ bpc = "write_embeddings") => bresult' = "written"

\* C11: when batch_embed returns a list whose length differs from the number
\* of texts, main only records a warning; its next steps write docstore.json
\* and embeddings.json with what it has, and the run ends as a written build,
\* never as a failed one.
C11_MismatchOnlyWarns == [](C11_Inv) /\ [][C11_Act]_vars

C11_Witness ==
    /\ bresult = "written"
    /\ warned
    /\ Len(disk.docstore.data) = 3
    /\ Len(disk.embeddings.data) = 2

\* all entries of a vector table have the same number of components
Uniform(vs) == \A j, k \in 1..Len(vs) : vs[j].dim = vs[k].dim

\* C12: an index is never published with vectors of differing dimension: a
\* build whose vectors differ in dimension does not reach the writes, and a
\* vector table written by the build is uniform.
C12_UniformDimension ==
    /\ bresult = "written" => Uniform(emb_out)
    /\ disk.embeddings # disk0.embeddings => Uniform(disk.embeddings.data)

\* there is no document, or every document is empty or whitespace only
AllBlank == \A k \in 1..Len(documents) : Strip(documents[k].content) = <<>>

\* C13 as claimed: a build that produces no fragment ends as a failure and
\* writes nothing.
C13_Original ==
    (bpc = "done" /\ AllBlank) => (Raises(bresult) /\ disk = disk0)

\* C13 (amended): when there is no document or every document is empty or
\* whitespace only, main reports that no texts were found and returns
\* normally: it is not a failure, no embedding request is made, and both
\* files are exactly as they were when the run started; main takes this
\* early return in no other case.
C13_NoTextsReturnsNormally ==
    /\ (bpc # "start" /\ AllBlank) =>
         /\ bpc = "done"
         /\ bresult = "no_texts"
         /\ ~Raises(bresult)
         /\ texts = <<>>
         /\ docstore = <<>>
         /\ embed_calls = <<>>
         /\ nreq = 0
         /\ disk = disk0
    /\ bresult = "no_texts" => AllBlank

C13_Witness ==
    /\ bresult = "no_texts"
    /\ Len(documents) = 2
    /\ documents[1].content = <<" ", "\r">>
    /\ documents[2].content = <<>>
    /\ disk.docstore.exists

\* the two files as this run means to leave them
NewIndex ==
    [docstore |-> [exists |-> TRUE, data |-> docstore],
     embeddings |-> [exists |-> TRUE, data |-> emb_out]]

\* C14: the index is replaced atomically. A crash stops the run in the state
\* it is in, so the claim says that in every state of a run the two files
\* are either both as they were when the run started or both as the run
\* writes them.
C14_AtomicReplace == disk = disk0 \/ (Returned /\ disk = NewIndex)

\* ------------------------------------------------------------------------
\* Properties of the rebuild next to a query (checked under ReloadSpec)
\* ------------------------------------------------------------------------
\* C15: a query that loads the index while a rebuild runs works on an index
\* and a docstore written by the same build, its search finds a record for
\* every row the index returns, and that record is the one the row's vector
\* was computed from.
C15_NoTornRead ==
    /\ (kpc \in {"search", "done"} /\ k_index # NotLoaded) =>
         k_index.build = k_docstore.build
    /\ (kpc = "done" /\ k_index # NotLoaded) =>
         /\ k_results.raised = ""
         /\ \A pos \in 1..Len(k_results.items) :
              k_results.items[pos].text = k_index.rows[k_results.items[pos].id + 1]

\* ------------------------------------------------------------------------
\* Properties of chunk_text (checked under ChunkSpec)
\* ------------------------------------------------------------------------
\* C16: called with overlap >= max_chars, chunk_text fails with a
\* configuration error: it never runs the loop body, so it collects no
\* fragment, and it never returns normally.
C16_ConfigError ==
    c_in.overlap >= c_in.max_chars => (c_parts = <<>> /\ c_pc # "done")

ValidWindow == 0 < c_in.overlap /\ c_in.overlap < c_in.max_chars

\* the last n characters of e are the first n characters of l
Shares(e, l, n) ==
    /\ Len(e) >= n
    /\ Len(l) >= n
    /\ SubSeq(e, Len(e) - n + 1, Len(e)) = SubSeq(l, 1, n)

\* C17 as claimed: with 0 < overlap < max_chars every fragment has at most
\* max_chars characters, and every two consecutive fragments, the later of
\* which is not the final fragment, share exactly overlap characters.
C17_Original ==
    (c_pc = "done" /\ ValidWindow) =>
        /\ \A k \in 1..Len(c_parts) : Len(c_parts[k]) <= c_in.max_chars
        /\ \A k \in 1..(Len(c_parts) - 2) :
             Shares(c_parts[k], c_parts[k + 1], c_in.overlap)

\* C17 (amended): with 0 < overlap < max_chars every fragment has between 1
\* and max_chars characters, and every two consecutive fragments share
\* min(overlap, length of the later one) characters, the end of the earlier
\* being the start of the later; when 2 * overlap <= max_chars + 1 that is
\* exactly overlap characters for every pair but the one that ends in the
\* final fragment.
C17_FragmentsOverlap ==
    (c_pc = "done" /\ ValidWindow) =>
        /\ \A k \in 1..Len(c_parts) :
             Len(c_parts[k]) >= 1 /\ Len(c_parts[k]) <= c_in.max_chars
        /\ \A k \in 1..(Len(c_parts) - 1) :
             Shares(c_parts[k], c_parts[k + 1],
                    IF Len(c_parts[k + 1]) < c_in.overlap
                    THEN Len(c_parts[k + 1]) ELSE c_in.overlap)
        /\ 2 * c_in.overlap <= c_in.max_chars + 1 =>
             \A k \in 1..(Len(c_parts) - 2) :
                Shares(c_parts[k], c_parts[k + 1], c_in.overlap)

C17_Witness ==
    /\ c_pc = "done"
    /\ c_in.max_chars = 3
    /\ c_in.overlap = 2
    /\ c_in.text = <<"a", "b", "b", "a", "b">>
    /\ c_parts = << <<"a", "b", "b">>, <<"b", "b", "a">>, <<"b", "a", "b">>,
                    <<"a", "b">>, <<"b">> >>

\* the text is empty or all blanks and carriage returns
WhitespaceOnly(s) == \A k \in 1..Len(s) : s[k] \in {" ", "\r"}

OnlyCR(s) == \A k \in 1..Len(s) : s[k] = "\r"

\* C18 as claimed: chunk_text of an empty or whitespace-only text returns no
\* fragment.
C18_Original ==
    (c_pc = "done" /\ WhitespaceOnly(c_in.text)) => c_parts = <<>>

\* C18 (amended): chunk_text returns no fragment exactly when the text is
\* empty or made of carriage returns only; for any other text, a
\* whitespace-only one included, it returns at least one fragment.
C18_EmptyTextNoFragments ==
    c_pc = "done" => (c_parts = <<>> <=> OnlyCR(c_in.text))

C18_Witness ==
    /\ c_pc = "done"
    /\ c_in.text = <<"\r", " ">>
    /\ c_parts = << <<" ">> >>

\* ------------------------------------------------------------------------
\* Properties of split_text_into_chunks (checked under SplitSpec)
\* ------------------------------------------------------------------------
\* C19: every fragment the sentence-based splitter returns has at most
\* max_length characters.
C19_FragmentLengthBounded ==
    s_pc = "done" =>
        \A k \in 1..Len(s_chunks) : Len(s_chunks[k]) <= s_in.max_length

\* ------------------------------------------------------------------------
\* Properties of search_embeddings (checked under Spec)
\* ------------------------------------------------------------------------
SameScore(a, b) == ~ScoreLess(a, b) /\ ~ScoreLess(b, a)

\* C20: the search returns at most top_k entries, in descending order of
\* score, and entries with equal scores in ascending order of their row
\* (fragment id).
C20_TiesByAscendingId ==
    SearchDone =>
        /\ Len(results) <= TopK
        /\ \A k \in 1..(Len(results) - 1) :
             (~IsNaN(results[k].score) /\ ~IsNaN(results[k + 1].score)) =>
                 /\ ~ScoreLess(results[k].score, results[k + 1].score)
                 /\ SameScore(results[k].score, results[k + 1].score) =>
                      results[k].row < results[k + 1].row

\* ------------------------------------------------------------------------
\* Fragment ids (checked under BuildSpec)
\* ------------------------------------------------------------------------
\* the text of a document without its carriage returns
Clean(d) == SelectSeq(d.content, LAMBDA c : c # "\r")

\* the number of fragments a document contributes: none when it is blank,
\* else one per window start 0, step, 2 * step, ... below the text length
NFrag(d) ==
    IF \A k \in 1..Len(d.content) : d.content[k] \in {" ", "\r"}
    THEN 0
    ELSE (Len(Clean(d)) + (ChunkMaxChars - ChunkOverlap) - 1) \div (ChunkMaxChars - ChunkOverlap)

\* the number of fragments of the documents before the n-th
RECURSIVE FragsBefore(_)
FragsBefore(n) == IF n <= 1 THEN 0 ELSE FragsBefore(n - 1) + NFrag(documents[n - 1])

\* the j-th window over the text of a document
Window(d, j) ==
    LET t == Clean(d)
        from == (j - 1) * (ChunkMaxChars - ChunkOverlap)
    IN  SubSeq(t, from + 1, IF from + ChunkMaxChars < Len(t) THEN from + ChunkMaxChars ELSE Len(t))

\* C21: the fragment records of a build carry the ids 0..n-1 in insertion
\* order with no gap or repeat; the records of a document come after those of
\* the documents before it, blank documents taking no id, and within a
\* document in window order.  The records are thereby a function of the
\* document sequence alone, so two builds of the same sequence agree.
C21_IdsDenseInDocumentOrder ==
    bpc # "start" =>
        /\ Len(docstore) = FragsBefore(Len(documents) + 1)
        /\ Len(texts) = Len(docstore)
        /\ \A k \in 1..Len(docstore) :
             docstore[k].id = k - 1 /\ texts[k] = docstore[k].text
        /\ \A n \in 1..Len(documents) :
             \A j \in 1..NFrag(documents[n]) :
                LET r == docstore[FragsBefore(n) + j]
                IN  /\ r.id = FragsBefore(n) + j - 1
                    /\ r.text = Window(documents[n], j)
                    /\ r.title = documents[n].fname
                    /\ r.source = documents[n].fname

C21_Witness ==
    /\ bpc = "done"
    /\ bresult = "written"
    /\ Len(documents) = 2
    /\ documents[1].content = <<"a", "\r", "b", "c", "d">>
    /\ documents[2].content = <<"a", "b">>
    /\ Len(disk.docstore.data) = 3
    /\ disk.docstore.data[3].id = 2

\* ------------------------------------------------------------------------
\* Structural references, written out for the questions and titles used
\* ------------------------------------------------------------------------
QSection302 == <<"Section", " ", "3", "0", "2">>
QIpc30 == <<"IPC", "3", "0">>
QNoNumber == <<"x", " ", "section", " ", "x">>
QNoReference == <<"x", " ", "x">>
TitleSection302 == <<"IPC", " ", "Section", " ", "3", "0", "2", ":", " ", "x">>
TitleSection30 == <<"section", " ", "3", "0">>

\* the title names exactly the section the question refers to
Matches(question, title) ==
    \/ question = QSection302 /\ title = TitleSection302
    \/ question = QIpc30 /\ title = TitleSection30

NoTitleMatches == \A i \in 1..Len(df) : ~Matches(q, df[i].title)

\* C22: a question whose structural reference is malformed (a keyword with
\* no number), absent, or names an identifier no title contains yields no
\* structural match: the lookup returns no context and no error, and the
\* query goes on to embed the question and search the vectors for the top
\* TopK = 5 rows.
C22_NoMatchFallsThrough ==
    (LookupDone /\ NoTitleMatches) =>
        /\ direct_ctx = None
        /\ calls[1] = StageCall("lookup")
        /\ Len(calls) = 1 => (qpc = "search" /\ result = NoResult)
        /\ Len(calls) > 1 =>
             /\ Len(calls) >= 3
             /\ calls[2].op = "embed"
             /\ calls[3].op = "search"
             /\ Len(results) = (IF Len(df) < 5 THEN Len(df) ELSE 5)

C22_Witness ==
    /\ SearchDone
    /\ q = QNoNumber
    /\ \E i \in 1..Len(df) : df[i].title = TitleSection302
    /\ Len(results) = Len(df)

\* ------------------------------------------------------------------------
\* Properties of query.py's loading (checked under ReloadSpec)
\* ------------------------------------------------------------------------
\* docstore.json cannot be read, or neither index.faiss (with its packages)
\* nor embeddings.npy can
IndexMissing ==
    \/ rag.docstore = Unreadable
    \/ (~k_faiss \/ rag.index = Unreadable) /\ rag.npy = Unreadable

\* C23: when the persisted index is missing or unreadable at query time the
\* query ends with the index-unavailable error and nothing else; a query
\* never ends with an empty result list, and every result it returns is a
\* record of a docstore it loaded together with an index.
C23_MissingIndexIsError ==
    kpc = "done" =>
        /\ IndexMissing =>
             k_results = [raised |-> "", error |-> "No index available", items |-> <<>>]
        /\ k_results.error # "" <=>
             (k_docstore = NotLoaded /\ k_index = NotLoaded /\ k_npy = NotLoaded)
        /\ (k_results.error = "" /\ k_results.raised = "") =>
             /\ k_results.items # <<>>
             /\ k_docstore # NotLoaded
             /\ k_index # NotLoaded \/ k_npy # NotLoaded
             /\ \A pos \in 1..Len(k_results.items) :
                  LET item == k_results.items[pos]
                  IN  /\ item.id + 1 \in 1..Len(k_docstore.docs)
                      /\ item.text = k_docstore.docs[item.id + 1].text
                      /\ item.title = k_docstore.docs[item.id + 1].title

C23_Witness ==
    /\ kpc = "done"
    /\ k_faiss
    /\ rag.index # Unreadable
    /\ rag.docstore = Unreadable
    /\ k_results.error = "No index available"

\* ------------------------------------------------------------------------
\* The index under a query (checked under Spec)
\* ------------------------------------------------------------------------
\* what a query took from the index is in the index as it stands
ReadFromIndex ==
    /\ \A k \in 1..Len(direct_ctx) : direct_ctx[k] \in 1..Len(df)
    /\ \A k \in 1..Len(results) :
         /\ results[k].row \in 1..Len(df)
         /\ results[k].title = df[results[k].row].title
         /\ results[k].content = df[results[k].row].content

\* C24: no step of resolving a query changes the shared index (the frame of
\* fragments and the matrix of vectors), on any path, so what the query read
\* from it stays what the index holds and another query finds the index a
\* query running alone finds.
C24_IndexUnchanged ==
    [](ReadFromIndex) /\ [][df' = df /\ embeddings' = embeddings]_vars

C24_Witness ==
    /\ qpc = "done"
    /\ SearchDone
    /\ Cardinality(GenCalls) = 2
    /\ result.kind = "answer"
    /\ Len(df) = MaxFrags

\* ------------------------------------------------------------------------
\* Calls to the providers
\* ------------------------------------------------------------------------
\* C25: every call to a provider carries a timeout, so a provider that does
\* not answer cannot hold a query: the generation call ends as a failed
\* call and the query ends with a result.
C25_NoCallWithoutTimeout == qpc # "blocked"

\* ------------------------------------------------------------------------
\* The search, given the query vector (checked under Spec)
\* ------------------------------------------------------------------------
\* the vector embedder.encode returned for the query
QueryVector == calls[CHOOSE k \in 1..Len(calls) : calls[k].op = "embed"].out

\* the score is 1, the similarity of a vector with itself
IsOne(s) == s.n # 0 /\ s.dot > 0 /\ s.dot * s.dot = s.n

\* C26: a search whose query vector is identical to a stored vector returns
\* that vector's fragment first, with the self-similarity score 1, the
\* largest there is (a fragment with the same score may stand in its place).
C26_RoundTrip ==
    SearchDone =>
        \A i \in 1..Len(embeddings) :
            embeddings[i] = QueryVector =>
                /\ IsOne(results[1].score)
                /\ \/ results[1].row = i
                   \/ embeddings[results[1].row] = embeddings[i]

\* the first search result has a score of exactly 0.40 = 2/5
TopScoreAtThreshold ==
    /\ results # <<>>
    /\ results[1].score.n # 0
    /\ results[1].score.dot > 0
    /\ 25 * results[1].score.dot * results[1].score.dot = 4 * results[1].score.n

\* C27: a best score of exactly 0.40 is not below the threshold: the query
\* takes the KB path, its next call being the KB-context generation with
\* the rows the search returned as context, and never the low-confidence
\* web path.
C27_ThresholdIsKB ==
    (SearchDone /\ TopScoreAtThreshold) =>
        /\ qpc # "gen_web_low"
        /\ Len(calls) = 3 => qpc \in {"gen_kb", "blocked"}
        /\ Len(calls) > 3 =>
             /\ calls[4].op = "generate"
             /\ calls[4].prompt = [kind |-> "kb",
                                   context |-> [k \in 1..Len(results) |-> results[k].row],
                                   query |-> q]
             /\ calls[4].temperature = TempKB

C27_Witness ==
    /\ qpc = "done"
    /\ SearchDone
    /\ TopScoreAtThreshold
    /\ Len(results) = MaxFrags
    /\ result.kind = "answer"
    /\ result.source = "kb"

\* ------------------------------------------------------------------------
\* Answers returned with source kb (checked under Spec)
\* ------------------------------------------------------------------------
ReturnedKB == result.kind = "answer" /\ result.source = "kb"

\* C28 as stated: on every path, the structural one included, an answer
\* returned with source kb neither contains the sentinel nor has fewer than
\* 5 words.
C28_Original == ReturnedKB => ~Insufficient(result.answer)

\* C28: an answer returned with source kb after a vector search neither
\* contains the sentinel nor has fewer than 5 words, the KB-context
\* generation there being followed by the post-generation check; on the
\* structural-lookup path the answer is returned as generated, checked for
\* the error marker only.
C28_KBAnswerChecked ==
    ReturnedKB =>
        /\ SearchDone => ~Insufficient(result.answer)
        /\ ~SearchDone =>
             /\ OpsOf(calls) = <<"lookup", "generate">>
             /\ direct_ctx # None
             /\ Usable(calls[2])
             /\ result.answer = calls[2].out

C28_Witness ==
    /\ qpc = "done"
    /\ ReturnedKB
    /\ ~SearchDone
    /\ Insufficient(result.answer)
    /\ Len(result.answer) > 5

\* ------------------------------------------------------------------------
\* The structural lookup's pattern (checked under Spec)
\* ------------------------------------------------------------------------
\* C29: the structural lookup returns a row exactly when its title carries a
\* keyword followed by the very identifier of the question, whatever the
\* case and closed by a word boundary: "IPC30" finds "section 30" and not
\* "IPC Section 302: ...", "Section 302" finds the latter and not the
\* former; and the query "Section 302" over an index with the title
\* "IPC Section 302: ..." is answered by the lookup and one generation call,
\* with source kb.
C29_LookupAnchored ==
    LookupDone =>
        /\ \A i \in 1..Len(df) :
             (\E k \in 1..Len(direct_ctx) : direct_ctx[k] = i) <=> Matches(q, df[i].title)
        /\ (/\ q = QSection302
            /\ \E i \in 1..Len(df) : df[i].title = TitleSection302
            /\ qpc = "done"
            /\ Usable(calls[2])) =>
             /\ OpsOf(calls) = <<"lookup", "generate">>
             /\ result = [kind |-> "answer", answer |-> calls[2].out,
                          source |-> "kb", status |-> StatusOK]

C29_Witness ==
    /\ qpc = "done"
    /\ q = QSection302
    /\ \E i, j \in 1..Len(df) : df[i].title = TitleSection302 /\ df[j].title = TitleSection30
    /\ Len(direct_ctx) = 1
    /\ result.kind = "answer"
    /\ result.source = "kb"

\* ------------------------------------------------------------------------
\* The number of generation calls (checked under Spec)
\* ------------------------------------------------------------------------
\* C30: a generation call is never retried. A query makes at most two, the
\* KB-context call after a search and then at most one web call; a call that
\* failed is the last call of its query and the query ends at once with the
\* error; a query answered by the structural lookup or sent to the web by a
\* low score makes exactly one.
C30_NoGenerationRetry ==
    /\ Cardinality(GenCalls) <= 2
    /\ \A k \in GenCalls :
         ~Usable(calls[k]) =>
            /\ k = Len(calls)
            /\ qpc = "done"
            /\ result.kind = "error"
    /\ \A j, k \in GenCalls :
         j < k =>
            /\ SearchDone
            /\ k = j + 1
            /\ calls[j].prompt.kind = "kb"
            /\ calls[k].prompt.kind = "web"
    /\ (qpc = "done" /\ LookupDone /\ ~SearchDone) => Cardinality(GenCalls) = 1
    /\ (qpc = "done" /\ SearchDone /\ TopScoreBelowThreshold) => Cardinality(GenCalls) = 1

C30_Witness ==
    /\ qpc = "done"
    /\ Cardinality(GenCalls) = 2
    /\ ~Usable(calls[Len(calls)])
    /\ result.kind = "error"

\* ------------------------------------------------------------------------
\* The back-off of batch_embed (checked under BuildSpec)
\* ------------------------------------------------------------------------
\* between two batches, and at the start of a call, no request has been sent
\* for the batch the loop is at and its attempt counter is 0
C31_Inv == (bpc \in Embedding /\ sent = 0) => attempt = 0

\* sent counts the requests already made for the batch: all of them failed
C31_Act ==
    (bpc \in Embedding /\ Rejected(resp', CurBatchLen)) =>
        /\ slept' = 5 * (sent + 1) * 10
        /\ sent > 0 => slept' > slept
        /\ sent + 1 <= 4

\* C31: after the k-th failed attempt of a batch (k = 1..retries) the
\* caller sleeps backoff * k (5 * k seconds, held in tenths), so the delays
\* within one batch grow strictly, and every new batch starts with the
\* attempt counter at 0, its first failure being followed by backoff * 1.
C31_BackoffGrows == [](C31_Inv) /\ [][C31_Act]_vars

C31_Witness ==
    /\ bpc \in Embedding
    /\ bi > 0
    /\ nreq >= 3
    /\ sent = 1
    /\ attempt = 1
    /\ slept = 50

\* C32: a similarity search over an index that holds a zero-norm vector, or
\* with a zero-norm query vector, divides by no zero: the denominator
\* norm(e) * norm(q) of every score it computes is positive.
C32_NoDivisionByZero ==
    SearchDone =>
        /\ \A k \in 1..Len(results) : results[k].score.n > 0
        /\ \A i \in 1..Len(embeddings) : Dot(embeddings[i], embeddings[i]) * Dot(QueryVector, QueryVector) > 0

\* ------------------------------------------------------------------------
\* The requests of one batch_embed call (checked under BuildSpec)
\* ------------------------------------------------------------------------
\* ceil(len(texts) / batch_size)
NumBatches == (Len(texts) + BatchSize - 1) \div BatchSize

C33_Inv ==
    bpc \in Embedding =>
        /\ bi \in { BatchSize * b : b \in 0..(NumBatches - 1) }
        /\ nreq < 4 * NumBatches
        /\ nreq <= sent + 4 * (bi \div BatchSize)

\* every step taken inside batch_embed sends one request
C33_Act ==
    bpc \in Embedding =>
        /\ nreq + 1 <= 4 * NumBatches
        /\ ~Rejected(resp', CurBatchLen) =>
             \/ bpc' = bpc /\ bi' = bi + BatchSize /\ nreq' = nreq + 1
             \/ bpc' \notin Embedding /\ bi' = bi
        /\ (Rejected(resp', CurBatchLen) /\ sent + 1 < 4) =>
             bpc' = bpc /\ bi' = bi /\ nreq' = nreq + 1
        /\ (Rejected(resp', CurBatchLen) /\ sent + 1 >= 4) =>
             /\ bpc' # bpc
             /\ bpc' \in Embedding => (bi' = 0 /\ nreq' = 0 /\ sent' = 0)
             /\ bpc' \notin Embedding => (bpc' = "done" /\ bi' = bi /\ bresult' = "failed")

\* C33: a batch_embed call sends at most retries * ceil(len(texts)/batchSize)
\* requests whatever the provider answers, and so comes to an end; it takes
\* the batches one after the other in input order, moving on only when a
\* response is accepted, and when a batch has used its retries the call is
\* over: no request goes out for a later batch.
C33_BoundedRequests == [](C33_Inv) /\ [][C33_Act]_vars

C33_Witness ==
    /\ bresult = "failed"
    /\ NumBatches = 2
    /\ bi = BatchSize
    /\ nreq = 4 * NumBatches

\* ------------------------------------------------------------------------
\* What batch_embed accumulates (checked under BuildSpec)
\* ------------------------------------------------------------------------
\* as long as every accepted response was exact, the list holds one vector
\* for each text of the batches done, in the order of the texts
C34_Inv ==
    (bpc \in Embedding /\ exact) =>
        /\ Len(emb_acc) = bi
        /\ \A k \in 1..Len(emb_acc) :
             emb_acc[k].kind = "vector" /\ emb_acc[k].text = texts[k] /\ emb_acc[k].model = model

C34_Act ==
    bpc \in Embedding =>
        /\ (Rejected(resp', CurBatchLen) /\ bpc' = bpc) => emb_acc' = emb_acc
        /\ (Rejected(resp', CurBatchLen) /\ bpc' = "done") => (emb_acc' = emb_acc /\ emb_out' = emb_out)
        /\ ~Rejected(resp', CurBatchLen) =>
             /\ IsPrefix(emb_acc, emb_acc')
             /\ Len(emb_acc') > Len(emb_acc)
             /\ resp'.body = "vectors" =>
                  /\ Len(emb_acc') = Len(emb_acc) + CurBatchLen
                  /\ \A j \in 1..CurBatchLen :
                       emb_acc'[Len(emb_acc) + j].text = texts[bi + j]
             /\ bpc' = bpc => bi' = bi + BatchSize

\* C34: a failed attempt leaves the accumulated list as it was; the vectors
\* of a batch are appended once, by the one accepted response, after which
\* the loop is at the next batch, so retries neither duplicate nor reorder
\* what the call returns.
C34_FailedAttemptAppendsNothing == [](C34_Inv) /\ [][C34_Act]_vars

C34_Witness ==
    /\ bpc \in Embedding
    /\ exact
    /\ bi = BatchSize
    /\ Len(emb_acc) = BatchSize
    /\ nreq = 5
    /\ sent = 2

\* ------------------------------------------------------------------------
\* The outcome of a query (checked under Spec)
\* ------------------------------------------------------------------------
\* query_endpoint has no step left to take
Stopped == qpc \in {"done", "blocked"}

\* the last call was a generation call that succeeded and gave the answer
AnswerGenerated ==
    /\ calls # <<>>
    /\ calls[Len(calls)].op = "generate"
    /\ Usable(calls[Len(calls)])
    /\ result.answer = calls[Len(calls)].out

\* C35: every authorized query comes to an end with exactly one of three
\* outcomes, an answer with source kb, an answer with source web, or an
\* error; an answer comes with the successful generation call that gave it.
\* On finite runs: an authorized query that takes no further step has one
\* of the three outcomes.
C35_OneOutcome ==
    (Stopped /\ LookupDone) =>
        \/ result.kind = "answer" /\ result.source \in {"kb", "web"} /\ AnswerGenerated
        \/ result.kind = "error" /\ result.answer = None /\ result.source = ""

\* ------------------------------------------------------------------------
\* The files a run of build_index.main leaves (checked under ReloadSpec)
\* ------------------------------------------------------------------------
\* C36: when a run of build_index.main has ended, the artifact query.py
\* loads first, index.faiss when it is there and embeddings.npy otherwise,
\* has one row for each entry of the docstore.json the run wrote.
C36_RowsMatchDocstore ==
    fpc = "done" =>
        /\ rag.docstore = DocstoreFile(new_documents, 1)
        /\ IF rag.index # Unreadable
           THEN Len(rag.index.rows) = Len(rag.docstore.docs)
           ELSE Len(rag.npy.rows) = Len(rag.docstore.docs)

\* ------------------------------------------------------------------------
\* The index without fragments (checked under Spec)
\* ------------------------------------------------------------------------
\* C37: over an index of zero fragments a query finds no structural match,
\* its search returns nothing, and it ends with the error of status 500: no
\* generation call is made and no answer is returned.
C37_EmptyIndexIsError ==
    (Len(df) = 0 /\ LookupDone) =>
        /\ direct_ctx = None
        /\ GenCalls = {}
        /\ result.kind # "answer"
        /\ qpc \in {"search", "done"}
        /\ qpc = "done" =>
             /\ OpsOf(calls) = <<"lookup", "embed", "search">>
             /\ results = <<>>
             /\ result = [kind |-> "error", answer |-> None, source |-> "", status |-> 500]

C37_Witness ==
    /\ Len(df) = 0
    /\ q = QNoReference
    /\ qpc = "done"
    /\ SearchDone
    /\ result.kind = "error"
    /\ result.status = 500

\* ------------------------------------------------------------------------
\* The output of query.py (checked under ReloadSpec)
\* ------------------------------------------------------------------------
FaissOutput ==
    /\ k_index # NotLoaded /\ k_docstore # NotLoaded /\ k_npy = NotLoaded
    /\ k_results.error = ""

BasicOutput ==
    /\ k_index = NotLoaded /\ k_npy # NotLoaded /\ k_docstore # NotLoaded
    /\ k_results.error = ""

ErrorOutput ==
    /\ k_index = NotLoaded /\ k_npy = NotLoaded /\ k_docstore = NotLoaded
    /\ k_results.error = "No index available"
    /\ k_results.items = <<>>

\* C38: an invocation of query.py that has ended has produced exactly one
\* output: the results of the FAISS search when the FAISS index loaded, the
\* results of the basic search when it did not and the basic index loaded
\* (the basic index is not read otherwise), the error record when neither
\* loaded.
C38_OneOutputInOrder ==
    /\ kpc \in {"load_npy", "load_docstore_basic", "search_basic"} => k_index = NotLoaded
    /\ kpc = "search" => (k_faiss /\ k_index # NotLoaded /\ k_docstore # NotLoaded /\ k_npy = NotLoaded)
    /\ kpc = "done" =>
         /\ k_results.raised = ""
         /\ FaissOutput \/ BasicOutput \/ ErrorOutput

====
